---- MODULE Spec2Model ----
(***************************************************************************)
(* A model of learning-vulkan's main.c / main.c++: a host program that      *)
(* builds two images, records clear / barrier / copy / barrier into one     *)
(* command buffer, submits it with a fence, waits, maps the readback        *)
(* image's memory and validates the first pixel.  The driver and the        *)
(* device are the environment: every checked call draws its VkResult, the   *)
(* device executes the recorded commands under the ordering the recorded    *)
(* barriers impose.                                                         *)
(***************************************************************************)
EXTENDS Integers, Sequences, FiniteSets, TLC

(***************************************************************************)
(* Bounds of the model.                                                     *)
(***************************************************************************)
\* Largest memoryTypeCount drawn for the selection function on its own.
MaxTypes == 3
\* Largest memoryTypeCount the device reports in a run of main.
MaxDeviceTypes == 2

(***************************************************************************)
(* Constants of the Vulkan headers, by the value the source names.          *)
(***************************************************************************)
VK_MEMORY_PROPERTY_DEVICE_LOCAL_BIT == 1
VK_MEMORY_PROPERTY_HOST_VISIBLE_BIT == 2
VK_MEMORY_PROPERTY_HOST_COHERENT_BIT == 4
VK_QUEUE_GRAPHICS_BIT == 1
VK_QUEUE_COMPUTE_BIT == 2
VK_QUEUE_TRANSFER_BIT == 4

\* Every combination of the three memory property flags above.
PropertyFlagValues == 0..7

(***************************************************************************)
(* Integer helpers: C's & and << on non-negative values.                    *)
(***************************************************************************)
RECURSIVE BitAnd(_, _)
BitAnd(a, b) ==
    IF a = 0 \/ b = 0 THEN 0
    ELSE (a % 2) * (b % 2) + 2 * BitAnd(a \div 2, b \div 2)

RECURSIVE BitOr(_, _)
BitOr(a, b) ==
    IF a = 0 THEN b
    ELSE IF b = 0 THEN a
    ELSE (IF a % 2 = 1 \/ b % 2 = 1 THEN 1 ELSE 0) + 2 * BitOr(a \div 2, b \div 2)

ShiftLeft(a, n) == a * (2 ^ n)

(***************************************************************************)
(* Shapes of the data the driver hands to the program.                      *)
(***************************************************************************)
\* VkPhysicalDeviceMemoryProperties with at most n types: the count and the
\* propertyFlags of types 0..count-1.
MemoryPropertiesUpTo(n) ==
    UNION { { [memoryTypeCount |-> c, memoryTypes |-> t] :
                t \in [0..(c - 1) -> PropertyFlagValues] } : c \in 0..n }

\* The compatible-type bitmasks over n types.
TypeBitsUpTo(n) == 0..((2 ^ n) - 1)

VARIABLES
    pc,                 \* the statement of main that runs next
    exit_status,        \* <<>> while the process runs, <<status>> once it has ended
    failed_check,       \* the description check() printed before exit, "" if none
    calls,              \* the driver calls issued so far, in order
    live,               \* the driver objects created and not destroyed
    res,                \* main's VkResult res
    memory_properties,  \* the global filled by vkGetPhysicalDeviceMemoryProperties
    queue_flags,        \* queueFlags of queue family 0, <<>> before it is queried
    reqs,               \* the block-local VkMemoryRequirements
    memory_type,        \* the block-local memory_type
    alloc,              \* each VkDeviceMemory: NoMemory or what it was allocated with
    bound,              \* each image: the memory and offset bound to it
    command_buffer,     \* its state, begin flags and recorded commands
    fence,              \* "null", "unsignaled" or "signaled"
    submitted,          \* the queue's submissions: command sequence and fence
    executed,           \* indexes of the submitted commands the device has executed
    image,              \* the device's view of each image: layout, data, visibility
    conforming,         \* FALSE once the device deviated from the commands' meaning
    mapped,             \* the memory objects mapped into the host's address space
    pixel,              \* the uint32_t read from the mapped address, <<>> before
    channel,            \* red, green, blue, alpha as the validator extracted them
    sel                 \* inputs and result of one call of the selection function

hostVars   == <<pc, exit_status, failed_check, calls, live, res>>
memVars    == <<memory_properties, queue_flags, reqs, memory_type, alloc, bound>>
cmdVars    == <<command_buffer, fence, submitted>>
deviceVars == <<executed, image, conforming>>
readVars   == <<mapped, pixel, channel>>

vars == <<hostVars, memVars, cmdVars, deviceVars, readVars, sel>>

(***************************************************************************)
(* find_appropriate_memory_type (main.c 66-76).  The loop runs *type from 0 *)
(* and returns 0 at the first type whose bit is set in                      *)
(* reqs.memoryTypeBits and whose propertyFlags contain props; it returns    *)
(* -1 with *type = memoryTypeCount when the loop runs out.                  *)
(***************************************************************************)
\* find_loop with the flag test weakened to "shares a flag with props".
RECURSIVE find_loop_any_flag(_, _, _, _)
find_loop_any_flag(mp, rq, props, type) ==
    IF type < mp.memoryTypeCount
    THEN IF /\ BitAnd(ShiftLeft(1, type), rq.memoryTypeBits) # 0
            /\ (props = 0 \/ BitAnd(mp.memoryTypes[type], props) # 0)
         THEN [ret |-> 0, type |-> type]
         ELSE find_loop_any_flag(mp, rq, props, type + 1)
    ELSE [ret |-> -1, type |-> type]

\* find_loop that keeps scanning and returns the last suitable type.
RECURSIVE find_loop_last(_, _, _, _)
find_loop_last(mp, rq, props, type) ==
    IF type < mp.memoryTypeCount
    THEN LET later == find_loop_last(mp, rq, props, type + 1)
         IN  IF later.ret = 0 THEN later
             ELSE IF /\ BitAnd(ShiftLeft(1, type), rq.memoryTypeBits) # 0
                     /\ BitAnd(mp.memoryTypes[type], props) = props
                  THEN [ret |-> 0, type |-> type]
                  ELSE later
    ELSE [ret |-> -1, type |-> type]

RECURSIVE find_loop(_, _, _, _)
find_loop(mp, rq, props, type) ==
    IF type < mp.memoryTypeCount
    THEN IF /\ BitAnd(ShiftLeft(1, type), rq.memoryTypeBits) # 0
            /\ BitAnd(mp.memoryTypes[type], props) = props
         THEN [ret |-> 0, type |-> type]
         ELSE find_loop(mp, rq, props, type + 1)
    ELSE [ret |-> -1, type |-> type]

find_appropriate_memory_type(rq, props) ==
    find_loop(memory_properties, rq, props, 0)

(***************************************************************************)
(* The process.  check() (main.c 18-24) prints the description and calls    *)
(* exit(-1) when the condition is false; the shell sees the low eight bits  *)
(* of the argument.  Nothing is destroyed on the way out.                   *)
(***************************************************************************)
ExitStatusOf(n) == n % 256

\* check() that prints the description and returns instead of exiting.
check_no_exit(condition, description, next, objects) ==
    /\ pc' = next
    /\ exit_status' = exit_status
    /\ failed_check' = IF condition THEN failed_check ELSE description
    /\ live' = objects

check(condition, description, next, objects) ==
    IF condition
    THEN /\ pc' = next
         /\ exit_status' = exit_status
         /\ failed_check' = failed_check
         /\ live' = objects
    ELSE /\ pc' = <<"exited">>
         /\ exit_status' = <<ExitStatusOf(-1)>>
         /\ failed_check' = description
         /\ live' = objects

\* The VkResult a number is: find_appropriate_memory_type's 0 and -1 are stored
\* in res (main.c 198), where they read as VK_SUCCESS and VK_ERROR_OUT_OF_HOST_MEMORY.
VkResultOf(n) == IF n = 0 THEN "VK_SUCCESS" ELSE "VK_ERROR_OUT_OF_HOST_MEMORY"

\* The results a checked driver call may return.
VkResults == {"VK_SUCCESS", "VK_ERROR_OUT_OF_HOST_MEMORY"}
EnumerateResults == {"VK_SUCCESS", "VK_INCOMPLETE", "VK_ERROR_INITIALIZATION_FAILED"}
WaitResults == {"VK_SUCCESS", "VK_TIMEOUT", "VK_ERROR_DEVICE_LOST"}

\* res = vkCreateX(...); check(res == VK_SUCCESS, description);
CheckedCreate(here, call, description, object, next) ==
    /\ pc = here
    /\ calls' = Append(calls, call)
    /\ \E r \in VkResults :
         /\ res' = r
         /\ check(r = "VK_SUCCESS", description, next,
                  IF r = "VK_SUCCESS" THEN live \cup {object} ELSE live)

(***************************************************************************)
(* The images and what main builds around each (main.c 174-277).            *)
(***************************************************************************)
Images == {"write_image", "read_image"}

MemoryOf(img) == IF img = "write_image" THEN "write_image_memory" ELSE "read_image_memory"
ViewOf(img) == IF img = "write_image" THEN "write_image_view" ELSE "read_image_view"

\* VkImageCreateInfo args of each image.
ImageCreateInfo(img) ==
    IF img = "write_image"
    THEN [format        |-> "VK_FORMAT_R8G8B8A8_UNORM",
          extent        |-> [width |-> 400, height |-> 400, depth |-> 1],
          tiling        |-> "VK_IMAGE_TILING_OPTIMAL",
          usage         |-> {"VK_IMAGE_USAGE_COLOR_ATTACHMENT_BIT",
                             "VK_IMAGE_USAGE_TRANSFER_SRC_BIT"},
          initialLayout |-> "VK_IMAGE_LAYOUT_UNDEFINED"]
    ELSE [format        |-> "VK_FORMAT_R8G8B8A8_UNORM",
          extent        |-> [width |-> 400, height |-> 400, depth |-> 1],
          tiling        |-> "VK_IMAGE_TILING_LINEAR",
          usage         |-> {"VK_IMAGE_USAGE_TRANSFER_DST_BIT",
                             "VK_IMAGE_USAGE_SAMPLED_BIT"},
          initialLayout |-> "VK_IMAGE_LAYOUT_UNDEFINED"]

\* desired_flags of each image's memory block.
desired_flags(img) ==
    IF img = "write_image"
    THEN VK_MEMORY_PROPERTY_DEVICE_LOCAL_BIT
    ELSE VK_MEMORY_PROPERTY_HOST_VISIBLE_BIT

\* The statement that follows an image's view creation.
AfterImage(img) ==
    IF img = "write_image" THEN <<"vkCreateImage", "read_image">>
    ELSE <<"vkCreateRenderPass">>

NoReqs == [size |-> 0, memoryTypeBits |-> 0]
NoMemory == [allocated |-> FALSE]
NoBinding == [memory |-> "VK_NULL_HANDLE", offset |-> 0]
Undefined == <<>>

\* The sizes a driver may report for a 400x400 RGBA8 image.
ImageSizes == {640000, 655360}

\* The memory property tables and queue flags the device of a run may report.
DeviceFlagValues ==
    { 0, VK_MEMORY_PROPERTY_DEVICE_LOCAL_BIT, VK_MEMORY_PROPERTY_HOST_VISIBLE_BIT,
      VK_MEMORY_PROPERTY_DEVICE_LOCAL_BIT + VK_MEMORY_PROPERTY_HOST_VISIBLE_BIT }

DeviceMemoryProperties ==
    { mp \in MemoryPropertiesUpTo(MaxDeviceTypes) :
        \A i \in DOMAIN mp.memoryTypes : mp.memoryTypes[i] \in DeviceFlagValues }

QueueFlagValues ==
    { 0, VK_QUEUE_GRAPHICS_BIT, VK_QUEUE_COMPUTE_BIT, VK_QUEUE_TRANSFER_BIT,
      VK_QUEUE_GRAPHICS_BIT + VK_QUEUE_TRANSFER_BIT }

(***************************************************************************)
(* The state after the globals' zero initialisation, before main runs.      *)
(***************************************************************************)
NoSel == [phase |-> "unused"]

InitRest ==
    /\ exit_status = <<>>
    /\ failed_check = ""
    /\ calls = <<>>
    /\ live = {}
    /\ res = "uninitialized"
    /\ queue_flags = <<>>
    /\ reqs = NoReqs
    /\ memory_type = 0
    /\ alloc = [m \in {MemoryOf(i) : i \in Images} |-> NoMemory]
    /\ bound = [i \in Images |-> NoBinding]
    /\ command_buffer = [state |-> "unallocated", flags |-> {}, cmds |-> <<>>]
    /\ fence = "null"
    /\ submitted = <<>>
    /\ executed = {}
    /\ image = [i \in Images |->
                  [layout  |-> ImageCreateInfo(i).initialLayout,
                   data    |-> Undefined,
                   written |-> {},
                   visible |-> {}]]
    /\ conforming = TRUE
    /\ mapped = {}
    /\ pixel = <<>>
    /\ channel = <<>>

Init ==
    /\ pc = <<"vkEnumerateInstanceLayerProperties">>
    /\ memory_properties = [memoryTypeCount |-> 0, memoryTypes |-> <<>>]
    /\ sel = NoSel
    /\ InitRest

(***************************************************************************)
(* main, statement by statement.  pc names the driver call that comes next. *)
(***************************************************************************)

\* main.c 83-93: the layers are enumerated and printed, nothing is checked.
EnumerateInstanceLayerProperties ==
    /\ pc = <<"vkEnumerateInstanceLayerProperties">>
    /\ calls' = calls \o << <<"vkEnumerateInstanceLayerProperties">>,
                            <<"vkEnumerateInstanceLayerProperties">> >>
    /\ pc' = <<"vkCreateInstance">>
    /\ UNCHANGED <<exit_status, failed_check, live, res>>
    /\ UNCHANGED <<memVars, cmdVars, deviceVars, readVars, sel>>

\* main.c 96-104
CreateInstance ==
    /\ CheckedCreate(<<"vkCreateInstance">>, <<"vkCreateInstance">>, "",
                     "instance", <<"vkEnumeratePhysicalDevices">>)
    /\ UNCHANGED <<memVars, cmdVars, deviceVars, readVars, sel>>

\* main.c 108-110: count = 1, so a system with more devices gives VK_INCOMPLETE.
EnumeratePhysicalDevices ==
    /\ pc = <<"vkEnumeratePhysicalDevices">>
    /\ calls' = Append(calls, <<"vkEnumeratePhysicalDevices">>)
    /\ \E r \in EnumerateResults :
         /\ res' = r
         /\ check(r = "VK_SUCCESS", "", <<"vkGetPhysicalDeviceMemoryProperties">>, live)
    /\ UNCHANGED <<memVars, cmdVars, deviceVars, readVars, sel>>

\* main.c 112-138: the device's properties and memory table are read and printed.
GetPhysicalDeviceMemoryProperties ==
    /\ pc = <<"vkGetPhysicalDeviceMemoryProperties">>
    /\ calls' = calls \o << <<"vkGetPhysicalDeviceProperties">>,
                            <<"vkGetPhysicalDeviceMemoryProperties">> >>
    /\ memory_properties' \in DeviceMemoryProperties
    /\ pc' = <<"vkGetPhysicalDeviceQueueFamilyProperties">>
    /\ UNCHANGED <<exit_status, failed_check, live, res>>
    /\ UNCHANGED <<queue_flags, reqs, memory_type, alloc, bound>>
    /\ UNCHANGED <<cmdVars, deviceVars, readVars, sel>>

\* main.c 140-152: queue_family_index = 0 and the check on qprops[0].queueFlags.
\* With no queue family qprops[0] is read outside the array: any flags.
GetPhysicalDeviceQueueFamilyProperties ==
    /\ pc = <<"vkGetPhysicalDeviceQueueFamilyProperties">>
    /\ calls' = calls \o << <<"vkGetPhysicalDeviceQueueFamilyProperties">>,
                            <<"vkGetPhysicalDeviceQueueFamilyProperties">> >>
    /\ \E flags \in QueueFlagValues :
         /\ queue_flags' = <<flags>>
         /\ check(BitAnd(flags, BitOr(VK_QUEUE_GRAPHICS_BIT, VK_QUEUE_TRANSFER_BIT)) # 0,
                  "", <<"vkCreateDevice">>, live)
    /\ UNCHANGED res
    /\ UNCHANGED <<memory_properties, reqs, memory_type, alloc, bound>>
    /\ UNCHANGED <<cmdVars, deviceVars, readVars, sel>>

\* main.c 156-171: the device, then its queue 0 of family queue_family_index.
CreateDevice ==
    /\ pc = <<"vkCreateDevice">>
    /\ \E r \in VkResults :
         /\ res' = r
         /\ calls' = IF r = "VK_SUCCESS"
                     THEN calls \o << <<"vkCreateDevice">>, <<"vkGetDeviceQueue">> >>
                     ELSE Append(calls, <<"vkCreateDevice">>)
         /\ check(r = "VK_SUCCESS", "vkCreateDevice", <<"vkCreateImage", "write_image">>,
                  IF r = "VK_SUCCESS" THEN live \cup {"device", "queue"} ELSE live)
    /\ UNCHANGED <<memVars, cmdVars, deviceVars, readVars, sel>>

\* main.c 174-190, 227-243
CreateImage(img) ==
    /\ CheckedCreate(<<"vkCreateImage", img>>, <<"vkCreateImage", img>>,
                     IF img = "write_image" THEN "vkCreateImage(write_image)"
                                            ELSE "vkCreateImage(read_image)",
                     img, <<"vkGetImageMemoryRequirements", img>>)
    /\ UNCHANGED <<memVars, cmdVars, deviceVars, readVars, sel>>

\* main.c 194-195, 247-248: the driver reports the size and the compatible types.
GetImageMemoryRequirements(img) ==
    /\ pc = <<"vkGetImageMemoryRequirements", img>>
    /\ calls' = Append(calls, <<"vkGetImageMemoryRequirements", img>>)
    /\ \E size \in ImageSizes,
          bits \in TypeBitsUpTo(memory_properties.memoryTypeCount) :
           reqs' = [size |-> size, memoryTypeBits |-> bits]
    /\ pc' = <<"find_appropriate_memory_type", img>>
    /\ UNCHANGED <<exit_status, failed_check, live, res>>
    /\ UNCHANGED <<memory_properties, queue_flags, memory_type, alloc, bound>>
    /\ UNCHANGED <<cmdVars, deviceVars, readVars, sel>>

\* FindMemoryType whose result is stored and not checked.
FindMemoryType_unchecked(img) ==
    /\ pc = <<"find_appropriate_memory_type", img>>
    /\ LET found == find_appropriate_memory_type(reqs, desired_flags(img))
       IN  /\ memory_type' = found.type
           /\ res' = VkResultOf(found.ret)
           /\ check(TRUE,
                    IF img = "write_image"
                    THEN "find_appropriate_memory_type for write_image"
                    ELSE "find_appropriate_memory_type for read_image",
                    <<"vkAllocateMemory", img>>, live)
    /\ UNCHANGED calls
    /\ UNCHANGED <<memory_properties, queue_flags, reqs, alloc, bound>>
    /\ UNCHANGED <<cmdVars, deviceVars, readVars, sel>>

\* main.c 196-201, 249-254
FindMemoryType(img) ==
    /\ pc = <<"find_appropriate_memory_type", img>>
    /\ LET found == find_appropriate_memory_type(reqs, desired_flags(img))
       IN  /\ memory_type' = found.type
           /\ res' = VkResultOf(found.ret)
           /\ check(VkResultOf(found.ret) = VkResultOf(0),
                    IF img = "write_image"
                    THEN "find_appropriate_memory_type for write_image"
                    ELSE "find_appropriate_memory_type for read_image",
                    <<"vkAllocateMemory", img>>, live)
    /\ UNCHANGED calls
    /\ UNCHANGED <<memory_properties, queue_flags, reqs, alloc, bound>>
    /\ UNCHANGED <<cmdVars, deviceVars, readVars, sel>>

\* AllocateMemory that always asks for memory type 0.
AllocateMemory_type_zero(img) ==
    /\ pc = <<"vkAllocateMemory", img>>
    /\ LET margs == [allocationSize |-> reqs.size, memoryTypeIndex |-> 0]
       IN  /\ calls' = Append(calls, <<"vkAllocateMemory", MemoryOf(img), margs>>)
           /\ \E r \in VkResults :
                /\ res' = r
                /\ alloc' = IF r = "VK_SUCCESS"
                            THEN [alloc EXCEPT ![MemoryOf(img)] =
                                    [allocated       |-> TRUE,
                                     allocationSize  |-> margs.allocationSize,
                                     memoryTypeIndex |-> margs.memoryTypeIndex]]
                            ELSE alloc
                /\ check(r = "VK_SUCCESS",
                         IF img = "write_image" THEN "vkAllocateMemory(write_image)"
                                                ELSE "vkAllocateMemory(read_image)",
                         <<"vkBindImageMemory", img>>,
                         IF r = "VK_SUCCESS" THEN live \cup {MemoryOf(img)} ELSE live)
    /\ UNCHANGED <<memory_properties, queue_flags, reqs, memory_type, bound>>
    /\ UNCHANGED <<cmdVars, deviceVars, readVars, sel>>

\* AllocateMemory with the size computed from the extent (400 * 400 * 4)
\* in place of reqs.size.
AllocateMemory_extent_size(img) ==
    /\ pc = <<"vkAllocateMemory", img>>
    /\ LET margs == [allocationSize |-> 640000, memoryTypeIndex |-> memory_type]
       IN  /\ calls' = Append(calls, <<"vkAllocateMemory", MemoryOf(img), margs>>)
           /\ \E r \in VkResults :
                /\ res' = r
                /\ alloc' = IF r = "VK_SUCCESS"
                            THEN [alloc EXCEPT ![MemoryOf(img)] =
                                    [allocated       |-> TRUE,
                                     allocationSize  |-> margs.allocationSize,
                                     memoryTypeIndex |-> margs.memoryTypeIndex]]
                            ELSE alloc
                /\ check(r = "VK_SUCCESS",
                         IF img = "write_image" THEN "vkAllocateMemory(write_image)"
                                                ELSE "vkAllocateMemory(read_image)",
                         <<"vkBindImageMemory", img>>,
                         IF r = "VK_SUCCESS" THEN live \cup {MemoryOf(img)} ELSE live)
    /\ UNCHANGED <<memory_properties, queue_flags, reqs, memory_type, bound>>
    /\ UNCHANGED <<cmdVars, deviceVars, readVars, sel>>

\* main.c 202-208, 255-261
AllocateMemory(img) ==
    /\ pc = <<"vkAllocateMemory", img>>
    /\ LET margs == [allocationSize |-> reqs.size, memoryTypeIndex |-> memory_type]
       IN  /\ calls' = Append(calls, <<"vkAllocateMemory", MemoryOf(img), margs>>)
           /\ \E r \in VkResults :
                /\ res' = r
                /\ alloc' = IF r = "VK_SUCCESS"
                            THEN [alloc EXCEPT ![MemoryOf(img)] =
                                    [allocated       |-> TRUE,
                                     allocationSize  |-> margs.allocationSize,
                                     memoryTypeIndex |-> margs.memoryTypeIndex]]
                            ELSE alloc
                /\ check(r = "VK_SUCCESS",
                         IF img = "write_image" THEN "vkAllocateMemory(write_image)"
                                                ELSE "vkAllocateMemory(read_image)",
                         <<"vkBindImageMemory", img>>,
                         IF r = "VK_SUCCESS" THEN live \cup {MemoryOf(img)} ELSE live)
    /\ UNCHANGED <<memory_properties, queue_flags, reqs, memory_type, bound>>
    /\ UNCHANGED <<cmdVars, deviceVars, readVars, sel>>

\* main.c 209-210, 262-263
BindImageMemory(img) ==
    /\ pc = <<"vkBindImageMemory", img>>
    /\ calls' = Append(calls, <<"vkBindImageMemory", img, MemoryOf(img), 0>>)
    /\ \E r \in VkResults :
         /\ res' = r
         /\ bound' = IF r = "VK_SUCCESS"
                     THEN [bound EXCEPT ![img] = [memory |-> MemoryOf(img), offset |-> 0]]
                     ELSE bound
         /\ check(r = "VK_SUCCESS",
                  IF img = "write_image" THEN "vkBindImageMemory(write_image)"
                                         ELSE "vkBindImageMemory(read_image)",
                  <<"vkCreateImageView", img>>, live)
    /\ UNCHANGED <<memory_properties, queue_flags, reqs, memory_type, alloc>>
    /\ UNCHANGED <<cmdVars, deviceVars, readVars, sel>>

\* main.c 211-224, 264-277: the view; the block's reqs and memory_type end here.
CreateImageView(img) ==
    /\ CheckedCreate(<<"vkCreateImageView", img>>, <<"vkCreateImageView", img>>,
                     IF img = "write_image" THEN "vkCreateImageView(write_image)"
                                            ELSE "vkCreateImageView(read_image)",
                     ViewOf(img), AfterImage(img))
    /\ reqs' = NoReqs
    /\ memory_type' = 0
    /\ UNCHANGED <<memory_properties, queue_flags, alloc, bound>>
    /\ UNCHANGED <<cmdVars, deviceVars, readVars, sel>>

(***************************************************************************)
(* The render pass and framebuffer descriptions (main.c 280-321).  Fields   *)
(* the initialisers leave out are zero: initialLayout is                    *)
(* VK_IMAGE_LAYOUT_UNDEFINED, there are no subpass dependencies.            *)
(***************************************************************************)
\* color_attachment with the render pass itself moving the image on to the
\* transfer-source layout.
color_attachment_to_transfer_src ==
    [format        |-> "VK_FORMAT_R8G8B8A8_UNORM",
     samples       |-> 1,
     loadOp        |-> "VK_ATTACHMENT_LOAD_OP_DONT_CARE",
     storeOp       |-> "VK_ATTACHMENT_STORE_OP_STORE",
     initialLayout |-> "VK_IMAGE_LAYOUT_UNDEFINED",
     finalLayout   |-> "VK_IMAGE_LAYOUT_TRANSFER_SRC_OPTIMAL"]

color_attachment ==
    [format        |-> "VK_FORMAT_R8G8B8A8_UNORM",
     samples       |-> 1,
     loadOp        |-> "VK_ATTACHMENT_LOAD_OP_DONT_CARE",
     storeOp       |-> "VK_ATTACHMENT_STORE_OP_STORE",
     initialLayout |-> "VK_IMAGE_LAYOUT_UNDEFINED",
     finalLayout   |-> "VK_IMAGE_LAYOUT_COLOR_ATTACHMENT_OPTIMAL"]

color_attachment_reference ==
    [layout     |-> "VK_IMAGE_LAYOUT_COLOR_ATTACHMENT_OPTIMAL",
     attachment |-> 0]

RenderPassCreateInfo ==
    [pAttachments      |-> <<color_attachment>>,
     pColorAttachments |-> <<color_attachment_reference>>,
     pDependencies     |-> <<>>]

FramebufferCreateInfo ==
    [width        |-> 400,
     height       |-> 400,
     layers       |-> 1,
     pAttachments |-> <<"write_image_view">>,
     renderPass   |-> "render_pass"]

\* CreateRenderPass whose result is stored and not checked.
CreateRenderPass_unchecked ==
    /\ pc = <<"vkCreateRenderPass">>
    /\ calls' = Append(calls, <<"vkCreateRenderPass">>)
    /\ \E r \in VkResults :
         /\ res' = r
         /\ check(TRUE, "vkCreateRenderPass", <<"vkCreateFramebuffer">>,
                  IF r = "VK_SUCCESS" THEN live \cup {"render_pass"} ELSE live)
    /\ UNCHANGED <<memVars, cmdVars, deviceVars, readVars, sel>>

\* main.c 280-306
CreateRenderPass ==
    /\ CheckedCreate(<<"vkCreateRenderPass">>, <<"vkCreateRenderPass">>,
                     "vkCreateRenderPass", "render_pass", <<"vkCreateFramebuffer">>)
    /\ UNCHANGED <<memVars, cmdVars, deviceVars, readVars, sel>>

\* main.c 309-321
CreateFramebuffer ==
    /\ CheckedCreate(<<"vkCreateFramebuffer">>,
                     <<"vkCreateFramebuffer", FramebufferCreateInfo.renderPass,
                       FramebufferCreateInfo.pAttachments>>,
                     "vkFramebufferCreateInfo", "framebuffer", <<"vkCreateCommandPool">>)
    /\ UNCHANGED <<memVars, cmdVars, deviceVars, readVars, sel>>

\* main.c 324-331
CreateCommandPool ==
    /\ CheckedCreate(<<"vkCreateCommandPool">>, <<"vkCreateCommandPool">>,
                     "vkCommandPoolCreateInfo", "command_pool",
                     <<"vkAllocateCommandBuffers">>)
    /\ UNCHANGED <<memVars, cmdVars, deviceVars, readVars, sel>>

\* main.c 334-342
AllocateCommandBuffers ==
    /\ pc = <<"vkAllocateCommandBuffers">>
    /\ calls' = Append(calls, <<"vkAllocateCommandBuffers", "command_pool">>)
    /\ \E r \in VkResults :
         /\ res' = r
         /\ command_buffer' = IF r = "VK_SUCCESS"
                              THEN [command_buffer EXCEPT !.state = "initial"]
                              ELSE command_buffer
         /\ check(r = "VK_SUCCESS", "vkAllocateCommandBuffers",
                  <<"vkBeginCommandBuffer">>,
                  IF r = "VK_SUCCESS" THEN live \cup {"command_buffer"} ELSE live)
    /\ UNCHANGED <<fence, submitted>>
    /\ UNCHANGED <<memVars, deviceVars, readVars, sel>>

\* main.c 345-352
BeginCommandBuffer ==
    /\ pc = <<"vkBeginCommandBuffer">>
    /\ calls' = Append(calls, <<"vkBeginCommandBuffer">>)
    /\ \E r \in VkResults :
         /\ res' = r
         /\ command_buffer' =
                IF r = "VK_SUCCESS"
                THEN [state |-> "recording",
                      flags |-> {"VK_COMMAND_BUFFER_USAGE_ONE_TIME_SUBMIT_BIT"},
                      cmds  |-> <<>>]
                ELSE command_buffer
         /\ check(r = "VK_SUCCESS", "vkBeginCommandBuffer",
                  <<"vkCmdBeginRenderPass">>, live)
    /\ UNCHANGED <<fence, submitted>>
    /\ UNCHANGED <<memVars, deviceVars, readVars, sel>>

(***************************************************************************)
(* The recorded commands, with the arguments main gives them                *)
(* (main.c 355-509).  A mask is the set of the bits it names.               *)
(***************************************************************************)
BeginRenderPassCmd ==
    [op          |-> "vkCmdBeginRenderPass",
     renderPass  |-> "render_pass",
     framebuffer |-> "framebuffer",
     renderArea  |-> [x |-> 0, y |-> 0, width |-> 400, height |-> 400]]

ClearAttachmentsCmd ==
    [op              |-> "vkCmdClearAttachments",
     aspectMask      |-> {"VK_IMAGE_ASPECT_COLOR_BIT"},
     colorAttachment |-> 0,
     float32         |-> <<1, 1, 0, 1>>,
     rect            |-> [x |-> 0, y |-> 0, width |-> 400, height |-> 400]]

EndRenderPassCmd == [op |-> "vkCmdEndRenderPass"]

\* Barrier A without the render target's transition.
PipelineBarrierACmd_read_image_only ==
    [op           |-> "vkCmdPipelineBarrier",
     srcStageMask |-> {"VK_PIPELINE_STAGE_COLOR_ATTACHMENT_OUTPUT_BIT"},
     dstStageMask |-> {"VK_PIPELINE_STAGE_TRANSFER_BIT"},
     image_memory_barriers |->
        << [srcAccessMask |-> {},
            dstAccessMask |-> {"VK_ACCESS_TRANSFER_WRITE_BIT"},
            oldLayout     |-> "VK_IMAGE_LAYOUT_UNDEFINED",
            newLayout     |-> "VK_IMAGE_LAYOUT_TRANSFER_DST_OPTIMAL",
            image         |-> "read_image"] >>]

\* Barrier A waiting for the transfer stage instead of the colour output.
PipelineBarrierACmd_wrong_src_stage ==
    [op           |-> "vkCmdPipelineBarrier",
     srcStageMask |-> {"VK_PIPELINE_STAGE_TRANSFER_BIT"},
     dstStageMask |-> {"VK_PIPELINE_STAGE_TRANSFER_BIT"},
     image_memory_barriers |->
        << [srcAccessMask |-> {},
            dstAccessMask |-> {"VK_ACCESS_TRANSFER_WRITE_BIT"},
            oldLayout     |-> "VK_IMAGE_LAYOUT_UNDEFINED",
            newLayout     |-> "VK_IMAGE_LAYOUT_TRANSFER_DST_OPTIMAL",
            image         |-> "read_image"],
           [srcAccessMask |-> {"VK_ACCESS_COLOR_ATTACHMENT_WRITE_BIT"},
            dstAccessMask |-> {"VK_ACCESS_TRANSFER_READ_BIT"},
            oldLayout     |-> "VK_IMAGE_LAYOUT_COLOR_ATTACHMENT_OPTIMAL",
            newLayout     |-> "VK_IMAGE_LAYOUT_TRANSFER_SRC_OPTIMAL",
            image         |-> "write_image"] >>]

PipelineBarrierACmd ==
    [op           |-> "vkCmdPipelineBarrier",
     srcStageMask |-> {"VK_PIPELINE_STAGE_COLOR_ATTACHMENT_OUTPUT_BIT"},
     dstStageMask |-> {"VK_PIPELINE_STAGE_TRANSFER_BIT"},
     image_memory_barriers |->
        << [srcAccessMask |-> {},
            dstAccessMask |-> {"VK_ACCESS_TRANSFER_WRITE_BIT"},
            oldLayout     |-> "VK_IMAGE_LAYOUT_UNDEFINED",
            newLayout     |-> "VK_IMAGE_LAYOUT_TRANSFER_DST_OPTIMAL",
            image         |-> "read_image"],
           [srcAccessMask |-> {"VK_ACCESS_COLOR_ATTACHMENT_WRITE_BIT"},
            dstAccessMask |-> {"VK_ACCESS_TRANSFER_READ_BIT"},
            oldLayout     |-> "VK_IMAGE_LAYOUT_COLOR_ATTACHMENT_OPTIMAL",
            newLayout     |-> "VK_IMAGE_LAYOUT_TRANSFER_SRC_OPTIMAL",
            image         |-> "write_image"] >>]

CopyImageCmd ==
    [op             |-> "vkCmdCopyImage",
     srcImage       |-> "write_image",
     srcImageLayout |-> "VK_IMAGE_LAYOUT_TRANSFER_SRC_OPTIMAL",
     dstImage       |-> "read_image",
     dstImageLayout |-> "VK_IMAGE_LAYOUT_TRANSFER_DST_OPTIMAL",
     region         |-> [srcOffset |-> [x |-> 0, y |-> 0],
                         dstOffset |-> [x |-> 0, y |-> 0],
                         extent    |-> [width |-> 400, height |-> 400, depth |-> 1]]]

\* Barrier B that names no destination access.
PipelineBarrierBCmd_no_host_access ==
    [op           |-> "vkCmdPipelineBarrier",
     srcStageMask |-> {"VK_PIPELINE_STAGE_TRANSFER_BIT"},
     dstStageMask |-> {"VK_PIPELINE_STAGE_HOST_BIT"},
     image_memory_barriers |->
        << [srcAccessMask |-> {"VK_ACCESS_TRANSFER_WRITE_BIT"},
            dstAccessMask |-> {},
            oldLayout     |-> "VK_IMAGE_LAYOUT_TRANSFER_DST_OPTIMAL",
            newLayout     |-> "VK_IMAGE_LAYOUT_GENERAL",
            image         |-> "read_image"] >>]

PipelineBarrierBCmd ==
    [op           |-> "vkCmdPipelineBarrier",
     srcStageMask |-> {"VK_PIPELINE_STAGE_TRANSFER_BIT"},
     dstStageMask |-> {"VK_PIPELINE_STAGE_HOST_BIT"},
     image_memory_barriers |->
        << [srcAccessMask |-> {"VK_ACCESS_TRANSFER_WRITE_BIT"},
            dstAccessMask |-> {"VK_ACCESS_HOST_READ_BIT"},
            oldLayout     |-> "VK_IMAGE_LAYOUT_TRANSFER_DST_OPTIMAL",
            newLayout     |-> "VK_IMAGE_LAYOUT_GENERAL",
            image         |-> "read_image"] >>]

\* Record that puts the command in front of the ones recorded so far.
Record_in_front(here, cmd, next) ==
    /\ pc = here
    /\ calls' = Append(calls, <<cmd.op>>)
    /\ command_buffer' = IF command_buffer.state = "recording"
                         THEN [command_buffer EXCEPT !.cmds = <<cmd>> \o @]
                         ELSE command_buffer
    /\ pc' = next
    /\ UNCHANGED <<exit_status, failed_check, live, res, fence, submitted>>
    /\ UNCHANGED <<memVars, deviceVars, readVars, sel>>

\* A vkCmd* call: it returns nothing, the command goes into a recording buffer.
Record(here, cmd, next) ==
    /\ pc = here
    /\ calls' = Append(calls, <<cmd.op>>)
    /\ command_buffer' = IF command_buffer.state = "recording"
                         THEN [command_buffer EXCEPT !.cmds = Append(@, cmd)]
                         ELSE command_buffer
    /\ pc' = next
    /\ UNCHANGED <<exit_status, failed_check, live, res, fence, submitted>>
    /\ UNCHANGED <<memVars, deviceVars, readVars, sel>>

\* main.c 355-364
CmdBeginRenderPass ==
    Record(<<"vkCmdBeginRenderPass">>, BeginRenderPassCmd, <<"vkCmdClearAttachments">>)

\* main.c 367-382
CmdClearAttachments ==
    Record(<<"vkCmdClearAttachments">>, ClearAttachmentsCmd, <<"vkCmdEndRenderPass">>)

\* main.c 383
CmdEndRenderPass ==
    Record(<<"vkCmdEndRenderPass">>, EndRenderPassCmd, <<"vkCmdPipelineBarrier", "A">>)

\* main.c 387-440
CmdPipelineBarrierA ==
    Record(<<"vkCmdPipelineBarrier", "A">>, PipelineBarrierACmd, <<"vkCmdCopyImage">>)

\* main.c 443-468
CmdCopyImage ==
    Record(<<"vkCmdCopyImage">>, CopyImageCmd, <<"vkCmdPipelineBarrier", "B">>)

\* main.c 471-509
CmdPipelineBarrierB ==
    Record(<<"vkCmdPipelineBarrier", "B">>, PipelineBarrierBCmd, <<"vkEndCommandBuffer">>)

\* EndCommandBuffer that leaves the buffer in the recording state.
EndCommandBuffer_still_recording ==
    /\ pc = <<"vkEndCommandBuffer">>
    /\ calls' = Append(calls, <<"vkEndCommandBuffer">>)
    /\ \E r \in VkResults :
         /\ res' = r
         /\ command_buffer' = command_buffer
         /\ check(r = "VK_SUCCESS", "vkEndCommandBuffer", <<"vkCreateFence">>, live)
    /\ UNCHANGED <<fence, submitted>>
    /\ UNCHANGED <<memVars, deviceVars, readVars, sel>>

\* main.c 512-515
EndCommandBuffer ==
    /\ pc = <<"vkEndCommandBuffer">>
    /\ calls' = Append(calls, <<"vkEndCommandBuffer">>)
    /\ \E r \in VkResults :
         /\ res' = r
         /\ command_buffer' = [command_buffer EXCEPT !.state =
                                  IF r = "VK_SUCCESS" THEN "executable" ELSE "invalid"]
         /\ check(r = "VK_SUCCESS", "vkEndCommandBuffer", <<"vkCreateFence">>, live)
    /\ UNCHANGED <<fence, submitted>>
    /\ UNCHANGED <<memVars, deviceVars, readVars, sel>>

\* CreateFence with VK_FENCE_CREATE_SIGNALED_BIT.
CreateFence_signaled ==
    /\ pc = <<"vkCreateFence">>
    /\ calls' = Append(calls, <<"vkCreateFence">>)
    /\ \E r \in VkResults :
         /\ res' = r
         /\ fence' = IF r = "VK_SUCCESS" THEN "signaled" ELSE fence
         /\ check(r = "VK_SUCCESS", "vkCreateFence", <<"vkQueueSubmit">>,
                  IF r = "VK_SUCCESS" THEN live \cup {"fence"} ELSE live)
    /\ UNCHANGED <<command_buffer, submitted>>
    /\ UNCHANGED <<memVars, deviceVars, readVars, sel>>

\* main.c 518-524: no flags, so the fence starts unsignaled.
CreateFence ==
    /\ pc = <<"vkCreateFence">>
    /\ calls' = Append(calls, <<"vkCreateFence">>)
    /\ \E r \in VkResults :
         /\ res' = r
         /\ fence' = IF r = "VK_SUCCESS" THEN "unsignaled" ELSE fence
         /\ check(r = "VK_SUCCESS", "vkCreateFence", <<"vkQueueSubmit">>,
                  IF r = "VK_SUCCESS" THEN live \cup {"fence"} ELSE live)
    /\ UNCHANGED <<command_buffer, submitted>>
    /\ UNCHANGED <<memVars, deviceVars, readVars, sel>>

\* main.c 527-535: one submission of command_buffer, signalling fence.
QueueSubmit ==
    /\ pc = <<"vkQueueSubmit">>
    /\ calls' = Append(calls, <<"vkQueueSubmit", "command_buffer", "fence">>)
    /\ \E r \in VkResults :
         /\ res' = r
         /\ submitted' = IF r = "VK_SUCCESS"
                         THEN Append(submitted, [cmds  |-> command_buffer.cmds,
                                                 fence |-> "fence"])
                         ELSE submitted
         /\ command_buffer' = IF r = "VK_SUCCESS"
                              THEN [command_buffer EXCEPT !.state = "pending"]
                              ELSE command_buffer
         /\ check(r = "VK_SUCCESS", "vkQueueSubmit", <<"vkWaitForFences">>, live)
    /\ UNCHANGED fence
    /\ UNCHANGED <<memVars, deviceVars, readVars, sel>>

(***************************************************************************)
(* The device.  It executes the commands of the submission; a command may   *)
(* run once every earlier command it depends on has run.  The dependencies  *)
(* are the ones the recorded commands state: a pipeline barrier waits for   *)
(* the earlier commands of its source stages and holds back the later ones  *)
(* of its destination stages, layout transitions run in submission order,   *)
(* and a render pass's automatic transitions bracket its commands.          *)
(***************************************************************************)
Range(f) == { f[x] : x \in DOMAIN f }

Cmds == IF submitted = <<>> THEN <<>> ELSE submitted[1].cmds

ImageOfView(view) == IF view = "write_image_view" THEN "write_image" ELSE "read_image"

\* The images behind the framebuffer's attachments, and each one's description.
AttachmentImages == { ImageOfView(v) : v \in Range(FramebufferCreateInfo.pAttachments) }

AttachmentIndexOf(img) ==
    CHOOSE k \in DOMAIN FramebufferCreateInfo.pAttachments :
        ImageOfView(FramebufferCreateInfo.pAttachments[k]) = img

AttachmentOf(img) == RenderPassCreateInfo.pAttachments[AttachmentIndexOf(img)]

SubpassLayout(img) ==
    (CHOOSE r \in Range(RenderPassCreateInfo.pColorAttachments) :
        r.attachment + 1 = AttachmentIndexOf(img)).layout

\* The image vkCmdClearAttachments' colorAttachment index names.
ColorAttachmentImage(index) ==
    ImageOfView(FramebufferCreateInfo.pAttachments[
        RenderPassCreateInfo.pColorAttachments[index + 1].attachment + 1])

\* The pipeline stage an action command works in.
ExecStage(cmd) ==
    CASE cmd.op = "vkCmdClearAttachments" -> "VK_PIPELINE_STAGE_COLOR_ATTACHMENT_OUTPUT_BIT"
      [] cmd.op = "vkCmdCopyImage"        -> "VK_PIPELINE_STAGE_TRANSFER_BIT"
      [] OTHER                            -> "none"

InStages(stage, mask) ==
    stage # "none" /\ (stage \in mask \/ "VK_PIPELINE_STAGE_ALL_COMMANDS_BIT" \in mask)

\* Command i lies inside the render pass instance command j began.
InPass(cmds, j, i) ==
    /\ j < i
    /\ cmds[j].op = "vkCmdBeginRenderPass"
    /\ \A k \in (j + 1)..(i - 1) : cmds[k].op # "vkCmdEndRenderPass"

\* Command i changes the layout of some image.
IsTransition(cmds, i) ==
    CASE cmds[i].op = "vkCmdPipelineBarrier" -> cmds[i].image_memory_barriers # <<>>
      [] cmds[i].op = "vkCmdBeginRenderPass" ->
            \E img \in AttachmentImages : AttachmentOf(img).initialLayout # SubpassLayout(img)
      [] cmds[i].op = "vkCmdEndRenderPass" ->
            \E img \in AttachmentImages : AttachmentOf(img).finalLayout # SubpassLayout(img)
      [] OTHER -> FALSE

\* Command j < i must have run before command i may.
MustPrecede(cmds, j, i) ==
    \/ IsTransition(cmds, j) /\ IsTransition(cmds, i)
    \/ InPass(cmds, j, i)
    \/ /\ cmds[i].op = "vkCmdEndRenderPass"
       /\ IsTransition(cmds, i)
       /\ \E b \in 1..(j - 1) : InPass(cmds, b, j) /\ InPass(cmds, b, i)
    \/ /\ cmds[i].op = "vkCmdPipelineBarrier"
       /\ InStages(ExecStage(cmds[j]), cmds[i].srcStageMask)
    \/ /\ cmds[j].op = "vkCmdPipelineBarrier"
       /\ InStages(ExecStage(cmds[i]), cmds[j].dstStageMask)

\* An image state: its layout, the first texel's bytes (Undefined: anything),
\* the access types of writes not yet made available, and the access types
\* the contents are visible to.
ImageState(layout, data, written, visible) ==
    [layout |-> layout, data |-> data, written |-> written, visible |-> visible]

\* UNORM conversion of a clear colour component (0.0 and 1.0 are 0 and 1 here).
Unorm8(f) == IF f <= 0 THEN 0 ELSE IF f >= 1 THEN 255 ELSE 255 * f

\* A rectangle or region that starts at (x, y) covers the first texel.
CoversFirstTexel(x, y, width, height) ==
    x <= 0 /\ 0 < x + width /\ y <= 0 /\ 0 < y + height

ExecBeginRenderPass(im) ==
    [img \in Images |->
        IF img \in AttachmentImages
        THEN LET att  == AttachmentOf(img)
                 st   == im[img]
                 keep == /\ att.loadOp = "VK_ATTACHMENT_LOAD_OP_LOAD"
                         /\ att.initialLayout = st.layout
                         /\ st.written = {}
             IN  ImageState(SubpassLayout(img),
                            IF keep THEN st.data ELSE Undefined,
                            {},
                            IF att.initialLayout # SubpassLayout(img)
                            THEN {"VK_ACCESS_COLOR_ATTACHMENT_READ_BIT",
                                  "VK_ACCESS_COLOR_ATTACHMENT_WRITE_BIT"}
                            ELSE st.visible)
        ELSE im[img]]

ExecClearAttachments(cmds, i, im) ==
    LET cmd    == cmds[i]
        img    == ColorAttachmentImage(cmd.colorAttachment)
        st     == im[img]
        inPass == \E b \in 1..(i - 1) : InPass(cmds, b, i)
        ok     == /\ inPass
                  /\ st.layout \in {"VK_IMAGE_LAYOUT_COLOR_ATTACHMENT_OPTIMAL",
                                    "VK_IMAGE_LAYOUT_GENERAL"}
                  /\ "VK_ACCESS_COLOR_ATTACHMENT_WRITE_BIT" \in st.visible
                  /\ "VK_IMAGE_USAGE_COLOR_ATTACHMENT_BIT" \in ImageCreateInfo(img).usage
        hits   == /\ "VK_IMAGE_ASPECT_COLOR_BIT" \in cmd.aspectMask
                  /\ CoversFirstTexel(cmd.rect.x, cmd.rect.y, cmd.rect.width, cmd.rect.height)
    IN  IF hits
        THEN [im EXCEPT ![img] =
                ImageState(st.layout,
                           IF ok THEN [c \in 1..4 |-> Unorm8(cmd.float32[c])] ELSE Undefined,
                           {"VK_ACCESS_COLOR_ATTACHMENT_WRITE_BIT"},
                           {"VK_ACCESS_COLOR_ATTACHMENT_WRITE_BIT"})]
        ELSE im

ExecEndRenderPass(im) ==
    [img \in Images |->
        IF img \in AttachmentImages
        THEN LET att  == AttachmentOf(img)
                 st   == im[img]
                 data == IF att.storeOp = "VK_ATTACHMENT_STORE_OP_STORE"
                         THEN st.data ELSE Undefined
             IN  IF att.finalLayout # SubpassLayout(img)
                 THEN ImageState(att.finalLayout, data, {}, {})
                 ELSE ImageState(st.layout, data, st.written, st.visible)
        ELSE im[img]]

\* One VkImageMemoryBarrier: the contents survive when oldLayout is the
\* image's layout (and not undefined) and every pending write is in
\* srcAccessMask; afterwards the image is visible to dstAccessMask.
ApplyImageBarrier(b, st) ==
    LET kept == /\ b.oldLayout = st.layout
                /\ b.oldLayout # "VK_IMAGE_LAYOUT_UNDEFINED"
                /\ st.written \subseteq b.srcAccessMask
    IN  ImageState(b.newLayout, IF kept THEN st.data ELSE Undefined, {}, b.dstAccessMask)

RECURSIVE ApplyImageBarriers(_, _, _)
ApplyImageBarriers(bs, k, im) ==
    IF k > Len(bs) THEN im
    ELSE ApplyImageBarriers(bs, k + 1,
            [im EXCEPT ![bs[k].image] = ApplyImageBarrier(bs[k], im[bs[k].image])])

ExecPipelineBarrier(cmd, im) == ApplyImageBarriers(cmd.image_memory_barriers, 1, im)

ExecCopyImage(cmd, im) ==
    LET src     == im[cmd.srcImage]
        dst     == im[cmd.dstImage]
        r       == cmd.region
        readOK  == /\ src.layout = cmd.srcImageLayout
                   /\ cmd.srcImageLayout \in {"VK_IMAGE_LAYOUT_TRANSFER_SRC_OPTIMAL",
                                              "VK_IMAGE_LAYOUT_GENERAL"}
                   /\ "VK_ACCESS_TRANSFER_READ_BIT" \in src.visible
                   /\ "VK_IMAGE_USAGE_TRANSFER_SRC_BIT" \in ImageCreateInfo(cmd.srcImage).usage
                   /\ CoversFirstTexel(r.srcOffset.x, r.srcOffset.y,
                                       r.extent.width, r.extent.height)
        writeOK == /\ dst.layout = cmd.dstImageLayout
                   /\ cmd.dstImageLayout \in {"VK_IMAGE_LAYOUT_TRANSFER_DST_OPTIMAL",
                                              "VK_IMAGE_LAYOUT_GENERAL"}
                   /\ "VK_ACCESS_TRANSFER_WRITE_BIT" \in dst.visible
                   /\ "VK_IMAGE_USAGE_TRANSFER_DST_BIT" \in ImageCreateInfo(cmd.dstImage).usage
                   /\ ImageCreateInfo(cmd.srcImage).format = ImageCreateInfo(cmd.dstImage).format
    IN  IF CoversFirstTexel(r.dstOffset.x, r.dstOffset.y, r.extent.width, r.extent.height)
        THEN [im EXCEPT ![cmd.dstImage] =
                ImageState(dst.layout,
                           IF readOK /\ writeOK THEN src.data ELSE Undefined,
                           {"VK_ACCESS_TRANSFER_WRITE_BIT"},
                           {"VK_ACCESS_TRANSFER_WRITE_BIT"})]
        ELSE im

ExecCmd(cmds, i, im) ==
    CASE cmds[i].op = "vkCmdBeginRenderPass"  -> ExecBeginRenderPass(im)
      [] cmds[i].op = "vkCmdClearAttachments" -> ExecClearAttachments(cmds, i, im)
      [] cmds[i].op = "vkCmdEndRenderPass"    -> ExecEndRenderPass(im)
      [] cmds[i].op = "vkCmdPipelineBarrier"  -> ExecPipelineBarrier(cmds[i], im)
      [] cmds[i].op = "vkCmdCopyImage"        -> ExecCopyImage(cmds[i], im)

\* The image an action command writes.
WrittenImage(cmd) ==
    IF cmd.op = "vkCmdCopyImage" THEN cmd.dstImage
    ELSE ColorAttachmentImage(cmd.colorAttachment)

Ready(i) ==
    /\ i \in (1..Len(Cmds)) \ executed
    /\ \A j \in 1..(i - 1) : MustPrecede(Cmds, j, i) => j \in executed

\* The device runs one command that is ready.  A device that does not do what
\* the command says leaves anything in the image the command writes.
DeviceExecute(i) ==
    /\ pc # <<"exited">>
    /\ Ready(i)
    /\ executed' = executed \cup {i}
    /\ \/ /\ image' = ExecCmd(Cmds, i, image)
          /\ conforming' = conforming
       \/ /\ conforming
          /\ ExecStage(Cmds[i]) # "none"
          /\ image' = [ExecCmd(Cmds, i, image) EXCEPT ![WrittenImage(Cmds[i])].data = Undefined]
          /\ conforming' = FALSE
    /\ UNCHANGED <<hostVars, memVars, cmdVars, readVars, sel>>

\* The submission's fence is signaled once all of its commands have run.
DeviceSignalFence ==
    /\ pc # <<"exited">>
    /\ submitted # <<>>
    /\ executed = 1..Len(Cmds)
    /\ fence = "unsignaled"
    /\ fence' = "signaled"
    /\ UNCHANGED <<command_buffer, submitted>>
    /\ UNCHANGED <<hostVars, memVars, deviceVars, readVars, sel>>

(***************************************************************************)
(* Waiting, mapping and validating (main.c 538-561).                        *)
(***************************************************************************)

\* WaitForFences that takes every non-negative VkResult as success.
WaitForFences_timeout_accepted ==
    /\ pc = <<"vkWaitForFences">>
    /\ calls' = Append(calls, <<"vkWaitForFences", "fence">>)
    /\ \E r \in WaitResults :
         /\ res' = r
         /\ r = "VK_SUCCESS" => fence = "signaled"
         /\ r = "VK_TIMEOUT" => fence # "signaled"
         /\ check(r \in {"VK_SUCCESS", "VK_TIMEOUT"}, "vkWaitForFence",
                  <<"vkMapMemory">>, live)
    /\ UNCHANGED <<memVars, cmdVars, deviceVars, readVars, sel>>

\* WaitForFences whose result is stored and not checked.
WaitForFences_unchecked ==
    /\ pc = <<"vkWaitForFences">>
    /\ calls' = Append(calls, <<"vkWaitForFences", "fence">>)
    /\ \E r \in WaitResults :
         /\ res' = r
         /\ r = "VK_SUCCESS" => fence = "signaled"
         /\ r = "VK_TIMEOUT" => fence # "signaled"
         /\ check(TRUE, "vkWaitForFence", <<"vkMapMemory">>, live)
    /\ UNCHANGED <<memVars, cmdVars, deviceVars, readVars, sel>>

\* main.c 538-541: the call returns success only for a signaled fence; it
\* may give up with a timeout before that, or fail.
WaitForFences ==
    /\ pc = <<"vkWaitForFences">>
    /\ calls' = Append(calls, <<"vkWaitForFences", "fence">>)
    /\ \E r \in WaitResults :
         /\ res' = r
         /\ r = "VK_SUCCESS" => fence = "signaled"
         /\ r = "VK_TIMEOUT" => fence # "signaled"
         /\ check(r = "VK_SUCCESS", "vkWaitForFence", <<"vkMapMemory">>, live)
    /\ UNCHANGED <<memVars, cmdVars, deviceVars, readVars, sel>>

\* main.c 545-548
MapMemory ==
    /\ pc = <<"vkMapMemory">>
    /\ calls' = Append(calls, <<"vkMapMemory", "read_image_memory">>)
    /\ \E r \in VkResults :
         /\ res' = r
         /\ mapped' = IF r = "VK_SUCCESS" THEN mapped \cup {"read_image_memory"} ELSE mapped
         /\ check(r = "VK_SUCCESS", "vkMapMemory", <<"read pixel">>, live)
    /\ UNCHANGED <<pixel, channel>>
    /\ UNCHANGED <<memVars, cmdVars, deviceVars, sel>>

\* The byte values a texel channel is drawn from when its contents are not defined.
ByteValues == {0, 128, 255}

\* What the host finds in the first four bytes of the mapped memory: the
\* readback image's first texel when the device's writes are complete and
\* visible to host reads in a host-readable layout, anything otherwise.
MappedBytes ==
    LET st == image["read_image"]
    IN  IF /\ "read_image_memory" \in mapped
           /\ bound["read_image"] = [memory |-> "read_image_memory", offset |-> 0]
           /\ st.data # Undefined
           /\ st.layout = "VK_IMAGE_LAYOUT_GENERAL"
           /\ "VK_ACCESS_HOST_READ_BIT" \in st.visible
        THEN {st.data}
        ELSE [1..4 -> ByteValues]

\* A uint32_t as its two 16-bit halves (the full value does not fit the
\* checker's integers).  The load is that of a little-endian host.
LoadUint32(bytes) ==
    [lo |-> bytes[1] + 256 * bytes[2], hi |-> bytes[3] + 256 * bytes[4]]

\* p >> n for 0 <= n < 32, and p & m for a mask below 2^16.
ShiftRight32(p, n) ==
    IF n < 16
    THEN [lo |-> (p.lo \div (2 ^ n)) + (p.hi % (2 ^ n)) * (2 ^ (16 - n)),
          hi |-> p.hi \div (2 ^ n)]
    ELSE [lo |-> p.hi \div (2 ^ (n - 16)), hi |-> 0]

And32(p, m) == BitAnd(p.lo, m)

Uint8(n) == n % 256

\* ChannelsOf reading the pixel as B8G8R8A8.
ChannelsOf_bgra(p) ==
    [red   |-> Uint8(And32(ShiftRight32(p, 16), 255)),
     green |-> Uint8(And32(ShiftRight32(p, 8), 255)),
     blue  |-> Uint8(And32(p, 255)),
     alpha |-> Uint8(And32(ShiftRight32(p, 24), 255))]

\* main.c 550-553: red, green, blue, alpha, each a uint8_t.
ChannelsOf(p) ==
    [red   |-> Uint8(And32(p, 255)),
     green |-> Uint8(And32(ShiftRight32(p, 8), 255)),
     blue  |-> Uint8(And32(ShiftRight32(p, 16), 255)),
     alpha |-> Uint8(And32(ShiftRight32(p, 24), 255))]

\* main.c 549-554: the load and the four channel extractions.
ReadPixel ==
    /\ pc = <<"read pixel">>
    /\ \E bytes \in MappedBytes :
         LET p == LoadUint32(bytes)
         IN  /\ pixel' = <<p>>
             /\ channel' = ChannelsOf(p)
    /\ pc' = <<"check", "red">>
    /\ UNCHANGED mapped
    /\ UNCHANGED <<exit_status, failed_check, calls, live, res>>
    /\ UNCHANGED <<memVars, cmdVars, deviceVars, sel>>

\* CheckRed that reads the pixel again until its red channel is right.
CheckRed_read_again ==
    /\ pc = <<"check", "red">>
    /\ pc' = IF channel.red = 255 THEN <<"check", "green">> ELSE <<"read pixel">>
    /\ UNCHANGED <<exit_status, failed_check, live, calls, res>>
    /\ UNCHANGED <<memVars, cmdVars, deviceVars, readVars, sel>>

\* main.c 555
CheckRed ==
    /\ pc = <<"check", "red">>
    /\ check(channel.red = 255, "red == 0xff", <<"check", "green">>, live)
    /\ UNCHANGED <<calls, res>>
    /\ UNCHANGED <<memVars, cmdVars, deviceVars, readVars, sel>>

\* main.c 556
CheckGreen ==
    /\ pc = <<"check", "green">>
    /\ check(channel.green = 255, "green == 0xff", <<"check", "blue">>, live)
    /\ UNCHANGED <<calls, res>>
    /\ UNCHANGED <<memVars, cmdVars, deviceVars, readVars, sel>>

\* CheckBlue with the other channels' expected value.
CheckBlue_expects_ff ==
    /\ pc = <<"check", "blue">>
    /\ check(channel.blue = 255, "blue == 0", <<"check", "alpha">>, live)
    /\ UNCHANGED <<calls, res>>
    /\ UNCHANGED <<memVars, cmdVars, deviceVars, readVars, sel>>

\* main.c 557
CheckBlue ==
    /\ pc = <<"check", "blue">>
    /\ check(channel.blue = 0, "blue == 0", <<"check", "alpha">>, live)
    /\ UNCHANGED <<calls, res>>
    /\ UNCHANGED <<memVars, cmdVars, deviceVars, readVars, sel>>

\* CheckAlpha left out: the statement goes straight on to the return.
CheckAlpha_left_out ==
    /\ pc = <<"check", "alpha">>
    /\ check(TRUE, "alpha == 0xff", <<"return">>, live)
    /\ UNCHANGED <<calls, res>>
    /\ UNCHANGED <<memVars, cmdVars, deviceVars, readVars, sel>>

\* main.c 558
CheckAlpha ==
    /\ pc = <<"check", "alpha">>
    /\ check(channel.alpha = 255, "alpha == 0xff", <<"return">>, live)
    /\ UNCHANGED <<calls, res>>
    /\ UNCHANGED <<memVars, cmdVars, deviceVars, readVars, sel>>

\* main.c 561
Return ==
    /\ pc = <<"return">>
    /\ pc' = <<"exited">>
    /\ exit_status' = <<0>>
    /\ UNCHANGED <<failed_check, calls, live, res>>
    /\ UNCHANGED <<memVars, cmdVars, deviceVars, readVars, sel>>

Next ==
    \/ EnumerateInstanceLayerProperties
    \/ CreateInstance
    \/ EnumeratePhysicalDevices
    \/ GetPhysicalDeviceMemoryProperties
    \/ GetPhysicalDeviceQueueFamilyProperties
    \/ CreateDevice
    \/ \E img \in Images : CreateImage(img)
    \/ \E img \in Images : GetImageMemoryRequirements(img)
    \/ \E img \in Images : FindMemoryType(img)
    \/ \E img \in Images : AllocateMemory(img)
    \/ \E img \in Images : BindImageMemory(img)
    \/ \E img \in Images : CreateImageView(img)
    \/ CreateRenderPass
    \/ CreateFramebuffer
    \/ CreateCommandPool
    \/ AllocateCommandBuffers
    \/ BeginCommandBuffer
    \/ CmdBeginRenderPass
    \/ CmdClearAttachments
    \/ CmdEndRenderPass
    \/ CmdPipelineBarrierA
    \/ CmdCopyImage
    \/ CmdPipelineBarrierB
    \/ EndCommandBuffer
    \/ CreateFence
    \/ QueueSubmit
    \/ \E i \in 1..Len(Cmds) : DeviceExecute(i)
    \/ DeviceSignalFence
    \/ WaitForFences
    \/ MapMemory
    \/ ReadPixel
    \/ CheckRed
    \/ CheckGreen
    \/ CheckBlue
    \/ CheckAlpha
    \/ Return

Spec == Init /\ [][Next]_vars

(***************************************************************************)
(* Progress.  main runs on: every statement other than the fence wait       *)
(* completes (every driver call returns).  The device runs on: it executes  *)
(* the submitted commands and signals the fence.  vkWaitForFences returns   *)
(* success once the fence is signaled, if it has not returned a timeout or  *)
(* an error before.                                                         *)
(***************************************************************************)
HostStep ==
    \/ EnumerateInstanceLayerProperties
    \/ CreateInstance
    \/ EnumeratePhysicalDevices
    \/ GetPhysicalDeviceMemoryProperties
    \/ GetPhysicalDeviceQueueFamilyProperties
    \/ CreateDevice
    \/ \E img \in Images : CreateImage(img)
    \/ \E img \in Images : GetImageMemoryRequirements(img)
    \/ \E img \in Images : FindMemoryType(img)
    \/ \E img \in Images : AllocateMemory(img)
    \/ \E img \in Images : BindImageMemory(img)
    \/ \E img \in Images : CreateImageView(img)
    \/ CreateRenderPass
    \/ CreateFramebuffer
    \/ CreateCommandPool
    \/ AllocateCommandBuffers
    \/ BeginCommandBuffer
    \/ CmdBeginRenderPass
    \/ CmdClearAttachments
    \/ CmdEndRenderPass
    \/ CmdPipelineBarrierA
    \/ CmdCopyImage
    \/ CmdPipelineBarrierB
    \/ EndCommandBuffer
    \/ CreateFence
    \/ QueueSubmit
    \/ MapMemory
    \/ ReadPixel
    \/ CheckRed
    \/ CheckGreen
    \/ CheckBlue
    \/ CheckAlpha
    \/ Return

DeviceStep ==
    \/ \E i \in 1..Len(Cmds) : DeviceExecute(i)
    \/ DeviceSignalFence

WaitSucceeds == WaitForFences /\ res' = "VK_SUCCESS"

FairSpec ==
    /\ Spec
    /\ WF_vars(HostStep)
    /\ WF_vars(DeviceStep)
    /\ WF_vars(WaitSucceeds)

(***************************************************************************)
(* The selection function on its own: every table, bitmask and flag set     *)
(* within the bounds, then one call.                                        *)
(***************************************************************************)
SelInit ==
    /\ pc = <<"select">>
    /\ memory_properties \in MemoryPropertiesUpTo(MaxTypes)
    /\ \E bits \in TypeBitsUpTo(MaxTypes), props \in PropertyFlagValues :
           sel = [phase |-> "input",
                  reqs  |-> [size |-> 0, memoryTypeBits |-> bits],
                  props |-> props]
    /\ InitRest

SelCall ==
    /\ pc = <<"select">>
    /\ sel.phase = "input"
    /\ LET r == find_appropriate_memory_type(sel.reqs, sel.props)
       IN  sel' = [phase |-> "returned",
                   reqs  |-> sel.reqs,
                   props |-> sel.props,
                   ret   |-> r.ret,
                   type  |-> r.type]
    /\ UNCHANGED <<hostVars, memVars, cmdVars, deviceVars, readVars>>

SelNext == SelCall

SpecSel == SelInit /\ [][SelNext]_vars

(***************************************************************************)
(* The pixel load and channel extraction of main.c 549-553 on their own,    *)
(* over the bytes the mapped memory may hold.                               *)
(***************************************************************************)
PixelByteValues == {0, 1, 2, 127, 128, 129, 254, 255}

PixInit ==
    /\ pc = <<"extract">>
    /\ memory_properties = [memoryTypeCount |-> 0, memoryTypes |-> <<>>]
    /\ \E bytes \in [1..4 -> PixelByteValues] :
           sel = [phase |-> "mapped", bytes |-> bytes]
    /\ InitRest

PixLoad ==
    /\ pc = <<"extract">>
    /\ sel.phase = "mapped"
    /\ sel' = [phase |-> "loaded", bytes |-> sel.bytes, pixel |-> LoadUint32(sel.bytes)]
    /\ UNCHANGED <<hostVars, memVars, cmdVars, deviceVars, readVars>>

PixExtract ==
    /\ pc = <<"extract">>
    /\ sel.phase = "loaded"
    /\ sel' = [phase   |-> "extracted",
               bytes   |-> sel.bytes,
               pixel   |-> sel.pixel,
               channel |-> ChannelsOf(sel.pixel)]
    /\ UNCHANGED <<hostVars, memVars, cmdVars, deviceVars, readVars>>

PixNext == PixLoad \/ PixExtract

SpecPix == PixInit /\ [][PixNext]_vars

(***************************************************************************)
(* Properties.                                                              *)
(***************************************************************************)

\* Bit i of a mask, and a flag word as the set of its bit positions.
BitIsSet(mask, i) == (mask \div (2 ^ i)) % 2 = 1
FlagSet(flags) == { k \in 0..2 : BitIsSet(flags, k) }

\* Type i is allowed by the bitmask and carries every required flag.
Suitable(mp, bits, props, i) ==
    /\ i \in 0..(mp.memoryTypeCount - 1)
    /\ BitIsSet(bits, i)
    /\ FlagSet(props) \subseteq FlagSet(mp.memoryTypes[i])

\* C5: find_appropriate_memory_type returns success with index i only if
\* bit i of the bitmask is set and type i carries every required flag, and it
\* returns failure exactly when no index below memoryTypeCount is suitable.
C5_SelectionCorrect ==
    sel.phase = "returned" =>
        /\ sel.ret \in {0, -1}
        /\ sel.ret = 0 =>
               Suitable(memory_properties, sel.reqs.memoryTypeBits, sel.props, sel.type)
        /\ sel.ret = -1 <=>
               ~ \E i \in 0..(memory_properties.memoryTypeCount - 1) :
                     Suitable(memory_properties, sel.reqs.memoryTypeBits, sel.props, i)

\* A call that succeeds past an allowed type whose flags are a non-empty
\* strict subset of the required ones.
C5_Witness ==
    /\ sel.phase = "returned"
    /\ sel.ret = 0
    /\ \E j \in 0..(sel.type - 1) :
         /\ BitIsSet(sel.reqs.memoryTypeBits, j)
         /\ FlagSet(memory_properties.memoryTypes[j]) # {}
         /\ FlagSet(memory_properties.memoryTypes[j]) \subseteq FlagSet(sel.props)
         /\ FlagSet(memory_properties.memoryTypes[j]) # FlagSet(sel.props)

\* C6: when find_appropriate_memory_type succeeds, no index below the one it
\* returns is suitable.
C6_LowestIndex ==
    (sel.phase = "returned" /\ sel.ret = 0) =>
        \A j \in 0..(sel.type - 1) :
            ~ Suitable(memory_properties, sel.reqs.memoryTypeBits, sel.props, j)

\* A successful call with a second suitable type above the returned one.
C6_Witness ==
    /\ sel.phase = "returned"
    /\ sel.ret = 0
    /\ \E j \in (sel.type + 1)..(memory_properties.memoryTypeCount - 1) :
           Suitable(memory_properties, sel.reqs.memoryTypeBits, sel.props, j)

(***************************************************************************)
(* The recorded sequence and the layouts it declares.                       *)
(***************************************************************************)
Recorded == command_buffer.cmds

Ops(cmds) == [k \in DOMAIN cmds |-> cmds[k].op]

Called(name) == \E k \in DOMAIN calls : calls[k][1] = name

\* The layout of img after the image barriers bs[1..k], starting from layout.
RECURSIVE LayoutAfterBarriers(_, _, _, _)
LayoutAfterBarriers(bs, k, img, layout) ==
    IF k = 0 THEN layout
    ELSE IF bs[k].image = img THEN bs[k].newLayout
         ELSE LayoutAfterBarriers(bs, k - 1, img, layout)

\* The layout a command leaves img in: a render pass moves its attachments to
\* the subpass layout at its beginning and to the final layout at its end, a
\* pipeline barrier moves the images of its image barriers.
LayoutAfterCmd(cmd, img, layout) ==
    CASE cmd.op = "vkCmdBeginRenderPass" ->
            IF img \in AttachmentImages THEN SubpassLayout(img) ELSE layout
      [] cmd.op = "vkCmdEndRenderPass" ->
            IF img \in AttachmentImages THEN AttachmentOf(img).finalLayout ELSE layout
      [] cmd.op = "vkCmdPipelineBarrier" ->
            LayoutAfterBarriers(cmd.image_memory_barriers,
                                Len(cmd.image_memory_barriers), img, layout)
      [] OTHER -> layout

\* The tracked layout of img after the first n commands of cmds.
RECURSIVE TrackedLayout(_, _, _)
TrackedLayout(cmds, n, img) ==
    IF n = 0 THEN ImageCreateInfo(img).initialLayout
    ELSE LayoutAfterCmd(cmds[n], img, TrackedLayout(cmds, n - 1, img))

\* The image accesses of a command, each with the layout it needs.
Accesses(cmd) ==
    CASE cmd.op = "vkCmdClearAttachments" ->
            { [image |-> ColorAttachmentImage(cmd.colorAttachment),
               layout |-> "VK_IMAGE_LAYOUT_COLOR_ATTACHMENT_OPTIMAL"] }
      [] cmd.op = "vkCmdCopyImage" ->
            { [image |-> cmd.srcImage, layout |-> "VK_IMAGE_LAYOUT_TRANSFER_SRC_OPTIMAL"],
              [image |-> cmd.dstImage, layout |-> "VK_IMAGE_LAYOUT_TRANSFER_DST_OPTIMAL"] }
      [] OTHER -> {}

\* Command j of cmds moves img into layout.
Brings(cmds, j, img, layout) ==
    /\ TrackedLayout(cmds, j - 1, img) # layout
    /\ TrackedLayout(cmds, j, img) = layout

\* What may move an image into the layout an access needs: a pipeline
\* barrier, and for the clear also the beginning of the render pass.
BarrierOnly(op) == {"vkCmdPipelineBarrier"}

BarrierOrRenderPass(op) ==
    IF op = "vkCmdClearAttachments"
    THEN {"vkCmdPipelineBarrier", "vkCmdBeginRenderPass"}
    ELSE {"vkCmdPipelineBarrier"}

\* Every access of cmds finds its image in the layout it needs, brought there
\* by an earlier command that is one of the movers of the accessing command
\* and left there by the commands in between.
AccessesPrepared(cmds, Movers(_)) ==
    \A i \in DOMAIN cmds : \A a \in Accesses(cmds[i]) :
        /\ TrackedLayout(cmds, i - 1, a.image) = a.layout
        /\ \E j \in 1..(i - 1) :
              /\ cmds[j].op \in Movers(cmds[i].op)
              /\ Brings(cmds, j, a.image, a.layout)
              /\ \A k \in (j + 1)..(i - 1) :
                    TrackedLayout(cmds, k, a.image) = a.layout

\* The host's read finds the readback image in the general layout, brought
\* there by an executed pipeline barrier.
HostReadPrepared ==
    pixel # <<>> =>
        /\ image["read_image"].layout = "VK_IMAGE_LAYOUT_GENERAL"
        /\ \E j \in executed :
              /\ Cmds[j].op = "vkCmdPipelineBarrier"
              /\ Brings(Cmds, j, "read_image", "VK_IMAGE_LAYOUT_GENERAL")

C2_AccessAfterTransition ==
    /\ AccessesPrepared(Recorded, BarrierOrRenderPass)
    /\ HostReadPrepared

C2_Witness ==
    /\ pixel # <<>>
    /\ Len(Recorded) = 6
    /\ executed = DOMAIN Cmds

\* C2 (as stated): every image access happens only after a pipeline barrier
\* brought the image's tracked layout to the layout the access needs.
C2_AccessAfterPipelineBarrier ==
    /\ AccessesPrepared(Recorded, BarrierOnly)
    /\ HostReadPrepared

\* The old layout the image barrier of cmd on img declares.
DeclaredOldLayout(cmd, img) ==
    (CHOOSE b \in Range(cmd.image_memory_barriers) : b.image = img).oldLayout

\* C3: with each image's layout tracked through the recorded sequence
\* (undefined at creation, changed by the render pass's attachment layouts and
\* the barriers' newLayout), every layout a command declares is the tracked
\* layout at that point: barrier A's oldLayout is undefined for the readback
\* image and color-attachment-optimal for the render target, the copy names
\* transfer-source and transfer-destination, barrier B's oldLayout is
\* transfer-destination, and the readback image is in the general layout when
\* the host reads it.
C3_DeclaredLayoutsTracked ==
    /\ \A i \in DOMAIN Recorded :
          LET cmd == Recorded[i]
              tracked(img) == TrackedLayout(Recorded, i - 1, img)
          IN  /\ cmd.op = "vkCmdPipelineBarrier" =>
                    \A k \in DOMAIN cmd.image_memory_barriers :
                        cmd.image_memory_barriers[k].oldLayout =
                            LayoutAfterBarriers(cmd.image_memory_barriers, k - 1,
                                cmd.image_memory_barriers[k].image,
                                tracked(cmd.image_memory_barriers[k].image))
              /\ cmd.op = "vkCmdCopyImage" =>
                    /\ cmd.srcImageLayout = tracked(cmd.srcImage)
                    /\ cmd.dstImageLayout = tracked(cmd.dstImage)
              /\ cmd.op = "vkCmdBeginRenderPass" =>
                    \A img \in AttachmentImages :
                        AttachmentOf(img).initialLayout = tracked(img)
    /\ Len(Recorded) >= 4 =>
          /\ DeclaredOldLayout(Recorded[4], "read_image") = "VK_IMAGE_LAYOUT_UNDEFINED"
          /\ DeclaredOldLayout(Recorded[4], "write_image") =
                "VK_IMAGE_LAYOUT_COLOR_ATTACHMENT_OPTIMAL"
    /\ Len(Recorded) >= 5 =>
          /\ Recorded[5].srcImage = "write_image"
          /\ Recorded[5].srcImageLayout = "VK_IMAGE_LAYOUT_TRANSFER_SRC_OPTIMAL"
          /\ Recorded[5].dstImage = "read_image"
          /\ Recorded[5].dstImageLayout = "VK_IMAGE_LAYOUT_TRANSFER_DST_OPTIMAL"
    /\ Len(Recorded) >= 6 =>
          DeclaredOldLayout(Recorded[6], "read_image") = "VK_IMAGE_LAYOUT_TRANSFER_DST_OPTIMAL"
    /\ pixel # <<>> =>
          /\ TrackedLayout(Cmds, Len(Cmds), "read_image") = "VK_IMAGE_LAYOUT_GENERAL"
          /\ image["read_image"].layout = "VK_IMAGE_LAYOUT_GENERAL"

C3_Witness ==
    /\ pixel # <<>>
    /\ Len(Recorded) = 6
    /\ image["write_image"].layout = "VK_IMAGE_LAYOUT_TRANSFER_SRC_OPTIMAL"

\* The positions of the calls of a driver function in the call sequence.
CallsOf(name) == { k \in DOMAIN calls : calls[k][1] = name }

\* C4: the readback image's memory is mapped and its first pixel read only
\* after the command buffer was submitted with the fence and the wait on that
\* fence returned success: submit, successful wait, map, read, in that order.
C4_ReadAfterSuccessfulWait ==
    (Called("vkMapMemory") \/ mapped # {} \/ pixel # <<>>) =>
        /\ submitted # <<>>
        /\ submitted[1].fence = "fence"
        /\ submitted[1].cmds = Recorded
        /\ fence = "signaled"
        /\ executed = DOMAIN Cmds
        /\ \E sb \in CallsOf("vkQueueSubmit") :
           \E w \in CallsOf("vkWaitForFences") :
           \E m \in CallsOf("vkMapMemory") :
              /\ sb < w /\ w < m
              /\ calls[sb] = <<"vkQueueSubmit", "command_buffer", "fence">>
              /\ calls[w] = <<"vkWaitForFences", "fence">>
              /\ calls[m] = <<"vkMapMemory", "read_image_memory">>
        /\ pixel # <<>> => "read_image_memory" \in mapped

C4_Witness ==
    /\ pc = <<"check", "red">>
    /\ pixel # <<>>
    /\ mapped = {"read_image_memory"}
    /\ fence = "signaled"

\* The yellow the clear writes, as the channels and as the packed 0xFF00FFFF.
Yellow == [red |-> 255, green |-> 255, blue |-> 0, alpha |-> 255]

YellowPixel == [lo |-> 65535, hi |-> 65280]

PixelBytes(p) == << p.lo % 256, p.lo \div 256, p.hi % 256, p.hi \div 256 >>

\* The description of the first comparison the bytes fail.
FirstMismatch(b) ==
    IF b[1] # 255 THEN "red == 0xff"
    ELSE IF b[2] # 255 THEN "green == 0xff"
    ELSE IF b[3] # 0 THEN "blue == 0"
    ELSE "alpha == 0xff"

\* C8: for every value of the first four mapped bytes, validation passes if
\* and only if they are (0xFF, 0xFF, 0x00, 0xFF); otherwise the process fails
\* with the message of the first mismatching channel in the order red, green,
\* blue, alpha.
C8_ValidationExact ==
    (pc = <<"exited">> /\ pixel # <<>>) =>
        LET b == PixelBytes(pixel[1])
        IN  IF b = <<255, 255, 0, 255>>
            THEN exit_status = <<0>> /\ failed_check = ""
            ELSE exit_status # <<0>> /\ failed_check = FirstMismatch(b)

C8_Witness ==
    /\ pc = <<"exited">>
    /\ pixel # <<>>
    /\ PixelBytes(pixel[1])[1] = 255
    /\ PixelBytes(pixel[1])[2] = 255
    /\ PixelBytes(pixel[1])[3] # 0
    /\ PixelBytes(pixel[1])[4] # 255
    /\ failed_check = "blue == 0"

\* C9: when a fallible step reports failure the process terminates at that
\* step with a non-zero exit status: no later driver call is issued, the step
\* is not retried, and no created driver object is destroyed or freed.
C9_FailureIsFatal ==
    [][ /\ (pc # <<"exited">> /\ res' \notin {"VK_SUCCESS", "uninitialized"}) =>
            /\ pc' = <<"exited">>
            /\ exit_status' # <<>>
            /\ exit_status'[1] # 0
            /\ Len(calls') <= Len(calls) + 1
            /\ live \subseteq live'
        /\ pc = <<"exited">> =>
            /\ pc' = <<"exited">>
            /\ exit_status' = exit_status
            /\ calls' = calls
            /\ live' = live
            /\ alloc' = alloc
      ]_vars

C9_Witness ==
    /\ pc = <<"exited">>
    /\ res \notin {"VK_SUCCESS", "uninitialized"}
    /\ exit_status = <<255>>
    /\ {"write_image", "write_image_memory"} \subseteq live

\* The driver objects main creates or obtains.
AllObjects ==
    { "instance", "device", "queue", "write_image", "write_image_memory", "write_image_view",
      "read_image", "read_image_memory", "read_image_view", "render_pass",
      "framebuffer", "command_pool", "command_buffer", "fence" }

\* C10: the process terminates with status 0 only when every checked driver
\* call before succeeded, the fence wait returned success and all four channel
\* comparisons of the pixel read back passed.
C10_NormalExitOnlyAfterValidation ==
    (pc = <<"exited">> /\ exit_status = <<0>>) =>
        /\ res = "VK_SUCCESS"
        /\ failed_check = ""
        /\ live = AllObjects
        /\ command_buffer.state = "pending"
        /\ submitted # <<>>
        /\ fence = "signaled"
        /\ mapped = {"read_image_memory"}
        /\ pixel # <<>>
        /\ channel = Yellow
        /\ PixelBytes(pixel[1]) = <<255, 255, 0, 255>>

C10_Witness ==
    /\ pc = <<"exited">>
    /\ exit_status = <<0>>
    /\ channel = Yellow
    /\ live = AllObjects

\* The selection for img is about to run and will find no suitable type.
SelectionFails(img) ==
    /\ pc = <<"find_appropriate_memory_type", img>>
    /\ find_appropriate_memory_type(reqs, desired_flags(img)).ret # 0

\* The allocation calls made so far, all of them and those for one memory.
AllocationCalls == { k \in DOMAIN calls : calls[k][1] = "vkAllocateMemory" }

AllocationCallsFor(mem) == { k \in AllocationCalls : calls[k][2] = mem }

\* C11 (as amended): when the selection for an image finds no suitable type
\* the process aborts in that step with a non-zero status, before any
\* allocation call for that image; for the render target, whose selection is
\* the first, before any allocation call at all.
C11_AbortBeforeOwnAllocation ==
    [][ \A img \in Images :
          SelectionFails(img) =>
              /\ pc' = <<"exited">>
              /\ exit_status' # <<>>
              /\ exit_status'[1] # 0
              /\ calls' = calls
              /\ alloc' = alloc
              /\ AllocationCallsFor(MemoryOf(img)) = {}
              /\ ~alloc[MemoryOf(img)].allocated
              /\ img = "write_image" => AllocationCalls = {}
      ]_vars

C11_Witness ==
    /\ pc = <<"exited">>
    /\ failed_check = "find_appropriate_memory_type for read_image"
    /\ alloc["write_image_memory"].allocated
    /\ ~alloc["read_image_memory"].allocated
    /\ AllocationCallsFor("read_image_memory") = {}

\* C11 (as stated): when the selection for either image finds no suitable
\* type, no allocation call has been made in the execution.
C11_AbortBeforeAnyAllocation ==
    [][ \A img \in Images :
          SelectionFails(img) => (pc' = <<"exited">> /\ AllocationCalls = {})
      ]_vars

\* The state changes a command buffer goes through in main: allocated,
\* begun, ended (or left invalid by a failed end), submitted.
CommandBufferSteps ==
    { <<"unallocated", "initial">>, <<"initial", "recording">>,
      <<"recording", "executable">>, <<"recording", "invalid">>,
      <<"executable", "pending">> }

IsRecordingCall(k) ==
    calls[k][1] \in { "vkCmdBeginRenderPass", "vkCmdClearAttachments",
                      "vkCmdEndRenderPass", "vkCmdPipelineBarrier", "vkCmdCopyImage" }

\* C12: the command buffer moves only initial -> recording -> ended: recording
\* is begun once, with the one-time-submit flag, and ended once, commands are
\* recorded only while it is recording, it is submitted once and only after it
\* has ended, and it is never reset, begun again or submitted again.
C12_CommandBufferLifecycle ==
    /\ [](/\ Cardinality(CallsOf("vkBeginCommandBuffer")) <= 1
          /\ Cardinality(CallsOf("vkEndCommandBuffer")) <= 1
          /\ Cardinality(CallsOf("vkQueueSubmit")) <= 1
          /\ CallsOf("vkResetCommandBuffer") = {}
          /\ CallsOf("vkResetCommandPool") = {}
          /\ Len(submitted) <= 1
          /\ command_buffer.state \in {"recording", "executable", "pending"} =>
                command_buffer.flags = {"VK_COMMAND_BUFFER_USAGE_ONE_TIME_SUBMIT_BIT"}
          /\ \A k \in DOMAIN calls :
                IsRecordingCall(k) =>
                    /\ \E b \in CallsOf("vkBeginCommandBuffer") : b < k
                    /\ \A e \in CallsOf("vkEndCommandBuffer") : k < e
          /\ \A q \in CallsOf("vkQueueSubmit") :
                \E e \in CallsOf("vkEndCommandBuffer") : e < q)
    /\ [][ /\ command_buffer'.state # command_buffer.state =>
                <<command_buffer.state, command_buffer'.state>> \in CommandBufferSteps
           /\ command_buffer'.cmds # command_buffer.cmds =>
                /\ command_buffer.state = "recording"
                /\ command_buffer'.state = "recording"
                /\ \E cmd \in Range(command_buffer'.cmds) :
                      command_buffer'.cmds = Append(command_buffer.cmds, cmd)
           /\ submitted' # submitted =>
                /\ submitted = <<>>
                /\ command_buffer.state = "executable"
                /\ command_buffer'.state = "pending"
                /\ submitted' = <<[cmds |-> command_buffer.cmds, fence |-> "fence"]>>
         ]_vars

C12_Witness ==
    /\ command_buffer.state = "pending"
    /\ Len(submitted) = 1
    /\ Cardinality(CallsOf("vkBeginCommandBuffer")) = 1
    /\ Cardinality(CallsOf("vkEndCommandBuffer")) = 1
    /\ Cardinality(CallsOf("vkQueueSubmit")) = 1

\* C13: one fence is created, unsignaled and before the submission; it is the
\* fence of the one queue submission, becomes signaled at most once, when the
\* submitted command buffer has completed, is waited on once and only after
\* the submission succeeded, and is never reset.
C13_FenceLifecycle ==
    /\ [](/\ Cardinality(CallsOf("vkCreateFence")) <= 1
          /\ Cardinality(CallsOf("vkWaitForFences")) <= 1
          /\ CallsOf("vkResetFences") = {}
          /\ fence # "null" <=> "fence" \in live
          /\ \A q \in CallsOf("vkQueueSubmit") :
                /\ calls[q][3] = "fence"
                /\ \E f \in CallsOf("vkCreateFence") : f < q
                /\ "fence" \in live
          /\ \A w \in CallsOf("vkWaitForFences") :
                /\ calls[w][2] = "fence"
                /\ \E q \in CallsOf("vkQueueSubmit") : q < w
                /\ Len(submitted) = 1
          /\ submitted # <<>> => submitted[1].fence = "fence"
          /\ fence = "signaled" => (submitted # <<>> /\ executed = DOMAIN Cmds))
    /\ [][ fence' # fence =>
              \/ /\ fence = "null"
                 /\ fence' = "unsignaled"
                 /\ submitted = <<>>
              \/ /\ fence = "unsignaled"
                 /\ fence' = "signaled"
                 /\ submitted # <<>>
                 /\ executed = DOMAIN Cmds
         ]_vars

C13_Witness ==
    /\ fence = "signaled"
    /\ Cardinality(CallsOf("vkCreateFence")) = 1
    /\ Cardinality(CallsOf("vkWaitForFences")) = 1
    /\ pc = <<"vkMapMemory">>

\* C14: a fence wait that returns a timeout is handled like one that returns
\* an error: the process exits with a non-zero status and the readback memory
\* is never mapped; only a success lets the program go on to the mapping.
C14_TimeoutIsFatal ==
    /\ [][ (pc = <<"vkWaitForFences">> /\ pc' # pc) =>
              IF res' = "VK_SUCCESS"
              THEN pc' = <<"vkMapMemory">> /\ exit_status' = <<>>
              ELSE /\ res' \in WaitResults
                   /\ pc' = <<"exited">>
                   /\ exit_status' = <<ExitStatusOf(-1)>>
                   /\ exit_status'[1] # 0
                   /\ failed_check' = "vkWaitForFence"
                   /\ mapped' = {}
                   /\ live' = live
         ]_vars
    /\ []((pc = <<"exited">> /\ res \in {"VK_TIMEOUT", "VK_ERROR_DEVICE_LOST"}) =>
              /\ mapped = {}
              /\ ~Called("vkMapMemory")
              /\ pixel = <<>>
              /\ exit_status # <<0>>)

C14_Witness ==
    /\ pc = <<"exited">>
    /\ res = "VK_TIMEOUT"
    /\ exit_status = <<255>>
    /\ failed_check = "vkWaitForFence"
    /\ mapped = {}

\* The positions of the calls of a driver function on one object.
CallsOn(name, object) == { k \in CallsOf(name) : calls[k][2] = object }

\* Every call at a position of later follows a call at a position of earlier.
Follows(later, earlier) == \A l \in later : \E e \in earlier : e < l

\* C15: for each image the construction steps run in the order create image,
\* query memory requirements, select memory type, allocate exactly the
\* reported size, bind at offset 0, create view, each after the one before
\* succeeded; the render target is constructed through its view before the
\* construction of the readback image starts, and both are complete before
\* recording begins.
C15_ConstructionOrder ==
    /\ [](/\ \A img \in Images :
                LET create   == CallsOn("vkCreateImage", img)
                    query    == CallsOn("vkGetImageMemoryRequirements", img)
                    allocate == CallsOn("vkAllocateMemory", MemoryOf(img))
                    bind     == CallsOn("vkBindImageMemory", img)
                    view     == CallsOn("vkCreateImageView", img)
                IN  /\ \A step \in {create, query, allocate, bind, view} :
                          Cardinality(step) <= 1
                    /\ Follows(query, create)
                    /\ query # {} => img \in live
                    /\ pc = <<"find_appropriate_memory_type", img>> =>
                          query # {} /\ allocate = {}
                    /\ Follows(allocate, query)
                    /\ allocate # {} => img \in live
                    /\ Follows(bind, allocate)
                    /\ bind # {} => alloc[MemoryOf(img)].allocated
                    /\ \A b \in bind : calls[b] = <<"vkBindImageMemory", img, MemoryOf(img), 0>>
                    /\ bound[img] # NoBinding => bound[img].offset = 0
                    /\ Follows(view, bind)
                    /\ view # {} => bound[img] = [memory |-> MemoryOf(img), offset |-> 0]
          /\ CallsOn("vkCreateImage", "read_image") # {} =>
                /\ ViewOf("write_image") \in live
                /\ Follows(CallsOn("vkCreateImage", "read_image"),
                           CallsOn("vkCreateImageView", "write_image"))
          /\ Called("vkBeginCommandBuffer") =>
                /\ \A img \in Images : {img, MemoryOf(img), ViewOf(img)} \subseteq live
                /\ Follows(CallsOf("vkBeginCommandBuffer"),
                           CallsOn("vkCreateImageView", "read_image")))
    /\ [][ \A img \in Images :
            /\ pc' = <<"vkAllocateMemory", img>> /\ pc' # pc =>
                  /\ pc = <<"find_appropriate_memory_type", img>>
                  /\ find_appropriate_memory_type(reqs, desired_flags(img)).ret = 0
                  /\ reqs' = reqs
            /\ pc = <<"vkAllocateMemory", img>> /\ pc' # pc =>
                  /\ calls' = Append(calls,
                        <<"vkAllocateMemory", MemoryOf(img),
                          [allocationSize |-> reqs.size, memoryTypeIndex |-> memory_type]>>)
                  /\ alloc'[MemoryOf(img)].allocated =>
                        alloc'[MemoryOf(img)].allocationSize = reqs.size
         ]_vars

C15_Witness ==
    /\ pc = <<"vkCmdBeginRenderPass">>
    /\ \A img \in Images : {img, MemoryOf(img), ViewOf(img)} \subseteq live
    /\ alloc["write_image_memory"].allocationSize = 655360
    /\ alloc["read_image_memory"].allocationSize = 640000

\* The submitted commands of one operation, and the ones that access an image.
CmdsOf(op) == { i \in DOMAIN Cmds : Cmds[i].op = op }

Producers(img) ==
    { i \in CmdsOf("vkCmdClearAttachments") \cup CmdsOf("vkCmdCopyImage") :
        WrittenImage(Cmds[i]) = img }

Consumers(img) == { i \in CmdsOf("vkCmdCopyImage") : Cmds[i].srcImage = img }

\* The device runs command i in this step.
Executes(i) == i \in executed' /\ i \notin executed

\* The image holds no write that was not made available, is in layout and is
\* visible to access.
CompleteAndVisible(st, layout, access) ==
    /\ st.written = {}
    /\ st.layout = layout
    /\ access \in st.visible

\* C16: with the device and the host running concurrently, held only by the
\* recorded barriers and the fence, the transfer never reads the render
\* target before the clear is complete and visible, never writes the readback
\* image before its transition to transfer-destination, and the host never
\* reads the readback image before the transfer's write is complete and
\* visible; each image has one producer and one consumer, the producer first.
C16_ProducerBeforeConsumer ==
    /\ [](submitted # <<>> =>
            /\ Cardinality(Producers("write_image")) = 1
            /\ Cardinality(Consumers("write_image")) = 1
            /\ Cardinality(Producers("read_image")) = 1
            /\ Consumers("read_image") = {}
            /\ Producers("write_image") = CmdsOf("vkCmdClearAttachments")
            /\ Producers("read_image") = CmdsOf("vkCmdCopyImage")
            /\ \A c \in Consumers("write_image") :
                  c \in executed => Producers("write_image") \subseteq executed
            /\ pixel # <<>> => Producers("read_image") \subseteq executed)
    /\ [][ /\ \A i \in CmdsOf("vkCmdCopyImage") :
                Executes(i) =>
                    /\ CmdsOf("vkCmdClearAttachments") \subseteq executed
                    /\ CompleteAndVisible(image[Cmds[i].srcImage],
                                          "VK_IMAGE_LAYOUT_TRANSFER_SRC_OPTIMAL",
                                          "VK_ACCESS_TRANSFER_READ_BIT")
                    /\ conforming => image[Cmds[i].srcImage].data = <<255, 255, 0, 255>>
                    /\ CompleteAndVisible(image[Cmds[i].dstImage],
                                          "VK_IMAGE_LAYOUT_TRANSFER_DST_OPTIMAL",
                                          "VK_ACCESS_TRANSFER_WRITE_BIT")
           /\ \A i \in CmdsOf("vkCmdClearAttachments") :
                Executes(i) =>
                    /\ CmdsOf("vkCmdBeginRenderPass") \subseteq executed
                    /\ CmdsOf("vkCmdCopyImage") \cap executed = {}
                    /\ image["write_image"].layout = "VK_IMAGE_LAYOUT_COLOR_ATTACHMENT_OPTIMAL"
           /\ pixel' # pixel =>
                /\ fence = "signaled"
                /\ executed = DOMAIN Cmds
                /\ CompleteAndVisible(image["read_image"], "VK_IMAGE_LAYOUT_GENERAL",
                                      "VK_ACCESS_HOST_READ_BIT")
                /\ conforming => image["read_image"].data = <<255, 255, 0, 255>>
         ]_vars

C16_Witness ==
    /\ pixel # <<>>
    /\ conforming
    /\ executed = DOMAIN Cmds
    /\ Cardinality(executed) = 6
    /\ image["read_image"].visible = {"VK_ACCESS_HOST_READ_BIT"}

\* Bits first..last of a value below 2^16.
Bits16(v, first, last) == (v \div (2 ^ first)) % (2 ^ (last - first + 1))

\* C17: for every 32-bit value read from the mapped base address, red is bits
\* 0-7, green bits 8-15, blue bits 16-23 and alpha bits 24-31, each in 0..255,
\* so that red + 256*green + 65536*blue + 16777216*alpha is the value read
\* (stated on the two 16-bit halves of the value: lo + 65536*hi); the
\* expected channels are those of the packed value 0xFF00FFFF.
C17_ChannelArithmetic ==
    sel.phase = "extracted" =>
        LET p == sel.pixel
            c == sel.channel
        IN  /\ p.lo \in 0..65535
            /\ p.hi \in 0..65535
            /\ \A ch \in {c.red, c.green, c.blue, c.alpha} : ch \in 0..255
            /\ c.red   = Bits16(p.lo, 0, 7)
            /\ c.green = Bits16(p.lo, 8, 15)
            /\ c.blue  = Bits16(p.hi, 0, 7)
            /\ c.alpha = Bits16(p.hi, 8, 15)
            /\ c.red + 256 * c.green = p.lo
            /\ c.blue + 256 * c.alpha = p.hi
            /\ <<c.red, c.green, c.blue, c.alpha>> = sel.bytes
            /\ c = Yellow <=> p = YellowPixel
            /\ YellowPixel = [lo |-> 255 + 256 * 255, hi |-> 0 + 256 * 255]

C17_Witness ==
    /\ sel.phase = "extracted"
    /\ sel.pixel = [lo |-> 128 + 256 * 1, hi |-> 254 + 256 * 129]
    /\ sel.channel = [red |-> 128, green |-> 1, blue |-> 254, alpha |-> 129]

\* The flag each image's memory must have.
RequiredFlag(img) ==
    IF img = "write_image" THEN VK_MEMORY_PROPERTY_DEVICE_LOCAL_BIT
                           ELSE VK_MEMORY_PROPERTY_HOST_VISIBLE_BIT

\* main is between the selection for img and the end of img's block, where
\* reqs and memory_type are those of img.
AfterSelection(img) ==
    pc \in { <<"vkAllocateMemory", img>>, <<"vkBindImageMemory", img>>,
             <<"vkCreateImageView", img>> }

\* C18: the memory type index of each allocation is the one a successful
\* selection returned for that image's requirements: below memoryTypeCount,
\* its bit set in the image's compatible-type mask, device-local for the
\* render target and host-visible for the readback image; so the memory the
\* host maps is of a host-visible type.
C18_AllocatedTypeSelected ==
    /\ \A img \in Images :
          /\ AfterSelection(img) =>
                /\ find_appropriate_memory_type(reqs, desired_flags(img)) =
                      [ret |-> 0, type |-> memory_type]
                /\ memory_type < memory_properties.memoryTypeCount
                /\ BitIsSet(reqs.memoryTypeBits, memory_type)
                /\ BitAnd(memory_properties.memoryTypes[memory_type], RequiredFlag(img)) # 0
                /\ \A k \in CallsOn("vkAllocateMemory", MemoryOf(img)) :
                      calls[k][3].memoryTypeIndex = memory_type
          /\ \A k \in CallsOn("vkAllocateMemory", MemoryOf(img)) :
                LET index == calls[k][3].memoryTypeIndex
                IN  /\ index \in 0..(memory_properties.memoryTypeCount - 1)
                    /\ BitAnd(memory_properties.memoryTypes[index], RequiredFlag(img)) # 0
          /\ alloc[MemoryOf(img)].allocated =>
                \E k \in CallsOn("vkAllocateMemory", MemoryOf(img)) :
                    alloc[MemoryOf(img)].memoryTypeIndex = calls[k][3].memoryTypeIndex
    /\ \A mem \in mapped :
          /\ mem = "read_image_memory"
          /\ alloc[mem].allocated
          /\ BitAnd(memory_properties.memoryTypes[alloc[mem].memoryTypeIndex],
                    VK_MEMORY_PROPERTY_HOST_VISIBLE_BIT) # 0

C18_Witness ==
    /\ mapped = {"read_image_memory"}
    /\ alloc["write_image_memory"].memoryTypeIndex = 0
    /\ alloc["read_image_memory"].memoryTypeIndex = 1
    /\ memory_properties.memoryTypes[0] = VK_MEMORY_PROPERTY_DEVICE_LOCAL_BIT
    /\ memory_properties.memoryTypes[1] = VK_MEMORY_PROPERTY_HOST_VISIBLE_BIT

\* The driver objects a call is given.
UsedBy(call) ==
    CASE call[1] \in {"vkEnumeratePhysicalDevices", "vkCreateDevice"} -> {"instance"}
      [] call[1] \in {"vkGetDeviceQueue", "vkCreateRenderPass", "vkCreateCommandPool",
                      "vkCreateFence"} -> {"device"}
      [] call[1] = "vkCreateImage" -> {"device"}
      [] call[1] = "vkGetImageMemoryRequirements" -> {"device", call[2]}
      [] call[1] = "vkAllocateMemory" -> {"device"}
      [] call[1] = "vkBindImageMemory" -> {"device", call[2], call[3]}
      [] call[1] = "vkCreateImageView" -> {"device", call[2]}
      [] call[1] = "vkCreateFramebuffer" -> {"device", call[2]} \cup Range(call[3])
      [] call[1] = "vkAllocateCommandBuffers" -> {"device", call[2]}
      [] call[1] \in {"vkBeginCommandBuffer", "vkEndCommandBuffer", "vkCmdClearAttachments",
                      "vkCmdEndRenderPass"} -> {"command_buffer"}
      [] call[1] = "vkCmdBeginRenderPass" ->
            {"command_buffer", BeginRenderPassCmd.renderPass, BeginRenderPassCmd.framebuffer}
      [] call[1] \in {"vkCmdPipelineBarrier", "vkCmdCopyImage"} ->
            {"command_buffer", "write_image", "read_image"}
      [] call[1] = "vkQueueSubmit" -> {"queue", call[2], call[3]}
      [] call[1] = "vkWaitForFences" -> {"device", call[2]}
      [] call[1] = "vkMapMemory" -> {"device", call[2]}
      [] OTHER -> {}

\* The calls that create an object, each with the object it creates.
Creations ==
    { <<"vkCreateInstance">>, <<"vkCreateDevice">>, <<"vkCreateRenderPass">>,
      <<"vkCreateCommandPool">>, <<"vkCreateFence">> }
    \cup { <<"vkCreateImage", img>> : img \in Images }
    \cup { <<"vkCreateImageView", img>> : img \in Images }

\* C19: no driver object is used before its creation call succeeded: the
\* framebuffer is created after the render pass and the render target's view,
\* the command buffer is allocated after the command pool, recording starts
\* after render pass, framebuffer and both images exist, the submission uses
\* an ended command buffer and a created fence, and every object is created
\* once.
C19_CreatedBeforeUse ==
    /\ [](/\ Called("vkCreateFramebuffer") => {"render_pass", "write_image_view"} \subseteq live
          /\ Called("vkAllocateCommandBuffers") => "command_pool" \in live
          /\ Called("vkBeginCommandBuffer") =>
                {"render_pass", "framebuffer", "write_image", "read_image",
                 "write_image_memory", "read_image_memory", "command_buffer"} \subseteq live
          /\ Called("vkQueueSubmit") =>
                /\ {"queue", "command_buffer", "fence"} \subseteq live
                /\ command_buffer.state \in {"executable", "pending"}
                /\ fence # "null"
          /\ \A c \in Creations :
                Cardinality({ k \in DOMAIN calls : calls[k] = c }) <= 1
          /\ \A name \in {"vkCreateFramebuffer", "vkAllocateCommandBuffers", "vkAllocateMemory"} :
                \A k, l \in CallsOf(name) : k # l => calls[k][2] # calls[l][2])
    /\ [][ /\ live \subseteq live'
           /\ Len(calls') >= Len(calls)
           /\ \A k \in (Len(calls) + 1)..Len(calls') :
                UsedBy(calls'[k]) \subseteq (IF k = Len(calls) + 1 THEN live ELSE live')
         ]_vars

C19_Witness ==
    /\ Called("vkQueueSubmit")
    /\ submitted # <<>>
    /\ live = AllObjects

\* The statements of main in the order of the source text.
ProgramOrder ==
    << <<"vkEnumerateInstanceLayerProperties">>, <<"vkCreateInstance">>,
       <<"vkEnumeratePhysicalDevices">>, <<"vkGetPhysicalDeviceMemoryProperties">>,
       <<"vkGetPhysicalDeviceQueueFamilyProperties">>, <<"vkCreateDevice">>,
       <<"vkCreateImage", "write_image">>,
       <<"vkGetImageMemoryRequirements", "write_image">>,
       <<"find_appropriate_memory_type", "write_image">>,
       <<"vkAllocateMemory", "write_image">>, <<"vkBindImageMemory", "write_image">>,
       <<"vkCreateImageView", "write_image">>,
       <<"vkCreateImage", "read_image">>,
       <<"vkGetImageMemoryRequirements", "read_image">>,
       <<"find_appropriate_memory_type", "read_image">>,
       <<"vkAllocateMemory", "read_image">>, <<"vkBindImageMemory", "read_image">>,
       <<"vkCreateImageView", "read_image">>,
       <<"vkCreateRenderPass">>, <<"vkCreateFramebuffer">>, <<"vkCreateCommandPool">>,
       <<"vkAllocateCommandBuffers">>, <<"vkBeginCommandBuffer">>,
       <<"vkCmdBeginRenderPass">>, <<"vkCmdClearAttachments">>, <<"vkCmdEndRenderPass">>,
       <<"vkCmdPipelineBarrier", "A">>, <<"vkCmdCopyImage">>,
       <<"vkCmdPipelineBarrier", "B">>, <<"vkEndCommandBuffer">>, <<"vkCreateFence">>,
       <<"vkQueueSubmit">>, <<"vkWaitForFences">>, <<"vkMapMemory">>, <<"read pixel">>,
       <<"check", "red">>, <<"check", "green">>, <<"check", "blue">>,
       <<"check", "alpha">>, <<"return">>, <<"exited">> >>

Position(at) == CHOOSE k \in DOMAIN ProgramOrder : ProgramOrder[k] = at

\* C20: the fence wait is the only point where the host can block: when
\* every driver call returns and the device completes the submitted command
\* buffer (or the wait returns a timeout or an error), every execution
\* terminates, with status 0 after validation or with a non-zero status at a
\* failed check; control only moves forward through main, nothing loops or
\* retries.
C20_Terminates ==
    /\ <>(pc = <<"exited">>)
    /\ [](pc \in Range(ProgramOrder))
    /\ [](pc \notin {<<"exited">>, <<"vkWaitForFences">>} => ENABLED HostStep)
    /\ [](pc = <<"vkWaitForFences">> /\ fence = "signaled" => ENABLED WaitSucceeds)
    /\ [](pc = <<"exited">> =>
            \/ exit_status = <<0>> /\ channel = Yellow /\ failed_check = ""
            \/ exit_status = <<ExitStatusOf(-1)>> /\ exit_status # <<0>>)
    /\ [][pc' # pc => (pc' = <<"exited">> \/ Position(pc') > Position(pc))]_vars

C20_Witness ==
    /\ pc = <<"exited">>
    /\ exit_status = <<0>>
    /\ fence = "signaled"
    /\ Called("vkWaitForFences")
    /\ executed = DOMAIN Cmds

(***************************************************************************)
(* main.c++, the same program written for a C++ compiler: every structure   *)
(* is zeroed with = {} and filled in field by field.  Its statements are     *)
(* modelled on the same variables, with the names of main.c under the        *)
(* prefix cxx_.  The device, the driver's possible results and the           *)
(* arithmetic of the two languages' unsigned types are those of main.c.      *)
(***************************************************************************)
\* VK_SAMPLE_COUNT_1_BIT of vulkan_core.h.
VK_SAMPLE_COUNT_1_BIT == 1

\* main.c++ 68-75: the loop of find_appropriate_memory_type.
RECURSIVE cxx_find_loop(_, _, _, _)
cxx_find_loop(mp, rq, props, type) ==
    IF type < mp.memoryTypeCount
    THEN IF /\ BitAnd(ShiftLeft(1, type), rq.memoryTypeBits) # 0
            /\ BitAnd(mp.memoryTypes[type], props) = props
         THEN [ret |-> 0, type |-> type]
         ELSE cxx_find_loop(mp, rq, props, type + 1)
    ELSE [ret |-> -1, type |-> type]

\* main.c++ 66-76
cxx_find_appropriate_memory_type(rq, props) ==
    cxx_find_loop(memory_properties, rq, props, 0)

\* main.c++ 18-24
cxx_check(condition, description, next, objects) ==
    IF condition
    THEN /\ pc' = next
         /\ exit_status' = exit_status
         /\ failed_check' = failed_check
         /\ live' = objects
    ELSE /\ pc' = <<"exited">>
         /\ exit_status' = <<ExitStatusOf(-1)>>
         /\ failed_check' = description
         /\ live' = objects

\* res = vkCreateX(...); check(res == VK_SUCCESS, description);
cxx_CheckedCreate(here, call, description, object, next) ==
    /\ pc = here
    /\ calls' = Append(calls, call)
    /\ \E r \in VkResults :
         /\ res' = r
         /\ cxx_check(r = "VK_SUCCESS", description, next,
                  IF r = "VK_SUCCESS" THEN live \cup {object} ELSE live)

\* main.c++ 175-186, 226-239: VkImageCreateInfo args, set field by field
\* on a zeroed structure.
cxx_ImageCreateInfo(img) ==
    IF img = "write_image"
    THEN [format        |-> "VK_FORMAT_R8G8B8A8_UNORM",
          extent        |-> [width |-> 400, height |-> 400, depth |-> 1],
          tiling        |-> "VK_IMAGE_TILING_OPTIMAL",
          usage         |-> {"VK_IMAGE_USAGE_COLOR_ATTACHMENT_BIT",
                             "VK_IMAGE_USAGE_TRANSFER_SRC_BIT"},
          initialLayout |-> "VK_IMAGE_LAYOUT_UNDEFINED"]
    ELSE [format        |-> "VK_FORMAT_R8G8B8A8_UNORM",
          extent        |-> [width |-> 400, height |-> 400, depth |-> 1],
          tiling        |-> "VK_IMAGE_TILING_LINEAR",
          usage         |-> {"VK_IMAGE_USAGE_TRANSFER_DST_BIT",
                             "VK_IMAGE_USAGE_SAMPLED_BIT"},
          initialLayout |-> "VK_IMAGE_LAYOUT_UNDEFINED"]

\* main.c++ 197, 249
cxx_desired_flags(img) ==
    IF img = "write_image"
    THEN VK_MEMORY_PROPERTY_DEVICE_LOCAL_BIT
    ELSE VK_MEMORY_PROPERTY_HOST_VISIBLE_BIT

\* main.c++ 83-93
cxx_EnumerateInstanceLayerProperties ==
    /\ pc = <<"vkEnumerateInstanceLayerProperties">>
    /\ calls' = calls \o << <<"vkEnumerateInstanceLayerProperties">>,
                            <<"vkEnumerateInstanceLayerProperties">> >>
    /\ pc' = <<"vkCreateInstance">>
    /\ UNCHANGED <<exit_status, failed_check, live, res>>
    /\ UNCHANGED <<memVars, cmdVars, deviceVars, readVars, sel>>

\* main.c++ 96-103
cxx_CreateInstance ==
    /\ cxx_CheckedCreate(<<"vkCreateInstance">>, <<"vkCreateInstance">>, "",
                     "instance", <<"vkEnumeratePhysicalDevices">>)
    /\ UNCHANGED <<memVars, cmdVars, deviceVars, readVars, sel>>

\* main.c++ 106-109
cxx_EnumeratePhysicalDevices ==
    /\ pc = <<"vkEnumeratePhysicalDevices">>
    /\ calls' = Append(calls, <<"vkEnumeratePhysicalDevices">>)
    /\ \E r \in EnumerateResults :
         /\ res' = r
         /\ cxx_check(r = "VK_SUCCESS", "", <<"vkGetPhysicalDeviceMemoryProperties">>, live)
    /\ UNCHANGED <<memVars, cmdVars, deviceVars, readVars, sel>>

\* main.c++ 111-137
cxx_GetPhysicalDeviceMemoryProperties ==
    /\ pc = <<"vkGetPhysicalDeviceMemoryProperties">>
    /\ calls' = calls \o << <<"vkGetPhysicalDeviceProperties">>,
                            <<"vkGetPhysicalDeviceMemoryProperties">> >>
    /\ memory_properties' \in DeviceMemoryProperties
    /\ pc' = <<"vkGetPhysicalDeviceQueueFamilyProperties">>
    /\ UNCHANGED <<exit_status, failed_check, live, res>>
    /\ UNCHANGED <<queue_flags, reqs, memory_type, alloc, bound>>
    /\ UNCHANGED <<cmdVars, deviceVars, readVars, sel>>

\* main.c++ 139-151: the same expression on qprops[0].queueFlags.
cxx_GetPhysicalDeviceQueueFamilyProperties ==
    /\ pc = <<"vkGetPhysicalDeviceQueueFamilyProperties">>
    /\ calls' = calls \o << <<"vkGetPhysicalDeviceQueueFamilyProperties">>,
                            <<"vkGetPhysicalDeviceQueueFamilyProperties">> >>
    /\ \E flags \in QueueFlagValues :
         /\ queue_flags' = <<flags>>
         /\ cxx_check(BitAnd(flags, BitOr(VK_QUEUE_GRAPHICS_BIT, VK_QUEUE_TRANSFER_BIT)) # 0,
                  "", <<"vkCreateDevice">>, live)
    /\ UNCHANGED res
    /\ UNCHANGED <<memory_properties, reqs, memory_type, alloc, bound>>
    /\ UNCHANGED <<cmdVars, deviceVars, readVars, sel>>

\* main.c++ 155-171
cxx_CreateDevice ==
    /\ pc = <<"vkCreateDevice">>
    /\ \E r \in VkResults :
         /\ res' = r
         /\ calls' = IF r = "VK_SUCCESS"
                     THEN calls \o << <<"vkCreateDevice">>, <<"vkGetDeviceQueue">> >>
                     ELSE Append(calls, <<"vkCreateDevice">>)
         /\ cxx_check(r = "VK_SUCCESS", "vkCreateDevice", <<"vkCreateImage", "write_image">>,
                  IF r = "VK_SUCCESS" THEN live \cup {"device", "queue"} ELSE live)
    /\ UNCHANGED <<memVars, cmdVars, deviceVars, readVars, sel>>

\* main.c++ 174-190, 225-242
cxx_CreateImage(img) ==
    /\ cxx_CheckedCreate(<<"vkCreateImage", img>>, <<"vkCreateImage", img>>,
                     IF img = "write_image" THEN "vkCreateImage(write_image)"
                                            ELSE "vkCreateImage(read_image)",
                     img, <<"vkGetImageMemoryRequirements", img>>)
    /\ UNCHANGED <<memVars, cmdVars, deviceVars, readVars, sel>>

\* main.c++ 194-195, 246-247
cxx_GetImageMemoryRequirements(img) ==
    /\ pc = <<"vkGetImageMemoryRequirements", img>>
    /\ calls' = Append(calls, <<"vkGetImageMemoryRequirements", img>>)
    /\ \E size \in ImageSizes,
          bits \in TypeBitsUpTo(memory_properties.memoryTypeCount) :
           reqs' = [size |-> size, memoryTypeBits |-> bits]
    /\ pc' = <<"find_appropriate_memory_type", img>>
    /\ UNCHANGED <<exit_status, failed_check, live, res>>
    /\ UNCHANGED <<memory_properties, queue_flags, memory_type, alloc, bound>>
    /\ UNCHANGED <<cmdVars, deviceVars, readVars, sel>>

\* main.c++ 196-199, 248-251: the result goes into a block-local int err;
\* res keeps the value the image's creation left in it.
cxx_FindMemoryType(img) ==
    /\ pc = <<"find_appropriate_memory_type", img>>
    /\ LET found == cxx_find_appropriate_memory_type(reqs, cxx_desired_flags(img))
       IN  /\ memory_type' = found.type
           /\ cxx_check(found.ret = 0,
                    IF img = "write_image"
                    THEN "find_appropriate_memory_type for write_image"
                    ELSE "find_appropriate_memory_type for read_image",
                    <<"vkAllocateMemory", img>>, live)
    /\ UNCHANGED <<calls, res>>
    /\ UNCHANGED <<memory_properties, queue_flags, reqs, alloc, bound>>
    /\ UNCHANGED <<cmdVars, deviceVars, readVars, sel>>

\* main.c++ 200-208, 252-260
cxx_AllocateMemory(img) ==
    /\ pc = <<"vkAllocateMemory", img>>
    /\ LET margs == [allocationSize |-> reqs.size, memoryTypeIndex |-> memory_type]
       IN  /\ calls' = Append(calls, <<"vkAllocateMemory", MemoryOf(img), margs>>)
           /\ \E r \in VkResults :
                /\ res' = r
                /\ alloc' = IF r = "VK_SUCCESS"
                            THEN [alloc EXCEPT ![MemoryOf(img)] =
                                    [allocated       |-> TRUE,
                                     allocationSize  |-> margs.allocationSize,
                                     memoryTypeIndex |-> margs.memoryTypeIndex]]
                            ELSE alloc
                /\ cxx_check(r = "VK_SUCCESS",
                         IF img = "write_image" THEN "vkAllocateMemory(write_image)"
                                                ELSE "vkAllocateMemory(read_image)",
                         <<"vkBindImageMemory", img>>,
                         IF r = "VK_SUCCESS" THEN live \cup {MemoryOf(img)} ELSE live)
    /\ UNCHANGED <<memory_properties, queue_flags, reqs, memory_type, bound>>
    /\ UNCHANGED <<cmdVars, deviceVars, readVars, sel>>

\* main.c++ 209-210, 261-262
cxx_BindImageMemory(img) ==
    /\ pc = <<"vkBindImageMemory", img>>
    /\ calls' = Append(calls, <<"vkBindImageMemory", img, MemoryOf(img), 0>>)
    /\ \E r \in VkResults :
         /\ res' = r
         /\ bound' = IF r = "VK_SUCCESS"
                     THEN [bound EXCEPT ![img] = [memory |-> MemoryOf(img), offset |-> 0]]
                     ELSE bound
         /\ cxx_check(r = "VK_SUCCESS",
                  IF img = "write_image" THEN "vkBindImageMemory(write_image)"
                                         ELSE "vkBindImageMemory(read_image)",
                  <<"vkCreateImageView", img>>, live)
    /\ UNCHANGED <<memory_properties, queue_flags, reqs, memory_type, alloc>>
    /\ UNCHANGED <<cmdVars, deviceVars, readVars, sel>>

\* main.c++ 211-222, 263-274
cxx_CreateImageView(img) ==
    /\ cxx_CheckedCreate(<<"vkCreateImageView", img>>, <<"vkCreateImageView", img>>,
                     IF img = "write_image" THEN "vkCreateImageView(write_image)"
                                            ELSE "vkCreateImageView(read_image)",
                     ViewOf(img), AfterImage(img))
    /\ reqs' = NoReqs
    /\ memory_type' = 0
    /\ UNCHANGED <<memory_properties, queue_flags, alloc, bound>>
    /\ UNCHANGED <<cmdVars, deviceVars, readVars, sel>>

\* cxx_color_attachment with four samples per texel.
cxx_color_attachment_multisampled ==
    [format        |-> "VK_FORMAT_R8G8B8A8_UNORM",
     samples       |-> 4,
     loadOp        |-> "VK_ATTACHMENT_LOAD_OP_DONT_CARE",
     storeOp       |-> "VK_ATTACHMENT_STORE_OP_STORE",
     initialLayout |-> "VK_IMAGE_LAYOUT_UNDEFINED",
     finalLayout   |-> "VK_IMAGE_LAYOUT_COLOR_ATTACHMENT_OPTIMAL"]

\* main.c++ 278-283
cxx_color_attachment ==
    [format        |-> "VK_FORMAT_R8G8B8A8_UNORM",
     samples       |-> VK_SAMPLE_COUNT_1_BIT,
     loadOp        |-> "VK_ATTACHMENT_LOAD_OP_DONT_CARE",
     storeOp       |-> "VK_ATTACHMENT_STORE_OP_STORE",
     initialLayout |-> "VK_IMAGE_LAYOUT_UNDEFINED",
     finalLayout   |-> "VK_IMAGE_LAYOUT_COLOR_ATTACHMENT_OPTIMAL"]

\* main.c++ 285-287
cxx_color_attachment_reference ==
    [layout     |-> "VK_IMAGE_LAYOUT_COLOR_ATTACHMENT_OPTIMAL",
     attachment |-> 0]

\* main.c++ 289-299
cxx_RenderPassCreateInfo ==
    [pAttachments      |-> <<cxx_color_attachment>>,
     pColorAttachments |-> <<cxx_color_attachment_reference>>,
     pDependencies     |-> <<>>]

\* main.c++ 306-313
cxx_FramebufferCreateInfo ==
    [width        |-> 400,
     height       |-> 400,
     layers       |-> 1,
     pAttachments |-> <<"write_image_view">>,
     renderPass   |-> "render_pass"]

\* main.c++ 277-302
cxx_CreateRenderPass ==
    /\ cxx_CheckedCreate(<<"vkCreateRenderPass">>, <<"vkCreateRenderPass">>,
                     "vkCreateRenderPass", "render_pass", <<"vkCreateFramebuffer">>)
    /\ UNCHANGED <<memVars, cmdVars, deviceVars, readVars, sel>>

\* main.c++ 305-316
cxx_CreateFramebuffer ==
    /\ cxx_CheckedCreate(<<"vkCreateFramebuffer">>,
                     <<"vkCreateFramebuffer", cxx_FramebufferCreateInfo.renderPass,
                       cxx_FramebufferCreateInfo.pAttachments>>,
                     "vkFramebufferCreateInfo", "framebuffer", <<"vkCreateCommandPool">>)
    /\ UNCHANGED <<memVars, cmdVars, deviceVars, readVars, sel>>

\* main.c++ 319-325
cxx_CreateCommandPool ==
    /\ cxx_CheckedCreate(<<"vkCreateCommandPool">>, <<"vkCreateCommandPool">>,
                     "vkCommandPoolCreateInfo", "command_pool",
                     <<"vkAllocateCommandBuffers">>)
    /\ UNCHANGED <<memVars, cmdVars, deviceVars, readVars, sel>>

\* main.c++ 328-335
cxx_AllocateCommandBuffers ==
    /\ pc = <<"vkAllocateCommandBuffers">>
    /\ calls' = Append(calls, <<"vkAllocateCommandBuffers", "command_pool">>)
    /\ \E r \in VkResults :
         /\ res' = r
         /\ command_buffer' = IF r = "VK_SUCCESS"
                              THEN [command_buffer EXCEPT !.state = "initial"]
                              ELSE command_buffer
         /\ cxx_check(r = "VK_SUCCESS", "vkAllocateCommandBuffers",
                  <<"vkBeginCommandBuffer">>,
                  IF r = "VK_SUCCESS" THEN live \cup {"command_buffer"} ELSE live)
    /\ UNCHANGED <<fence, submitted>>
    /\ UNCHANGED <<memVars, deviceVars, readVars, sel>>

\* main.c++ 338-344
cxx_BeginCommandBuffer ==
    /\ pc = <<"vkBeginCommandBuffer">>
    /\ calls' = Append(calls, <<"vkBeginCommandBuffer">>)
    /\ \E r \in VkResults :
         /\ res' = r
         /\ command_buffer' =
                IF r = "VK_SUCCESS"
                THEN [state |-> "recording",
                      flags |-> {"VK_COMMAND_BUFFER_USAGE_ONE_TIME_SUBMIT_BIT"},
                      cmds  |-> <<>>]
                ELSE command_buffer
         /\ cxx_check(r = "VK_SUCCESS", "vkBeginCommandBuffer",
                  <<"vkCmdBeginRenderPass">>, live)
    /\ UNCHANGED <<fence, submitted>>
    /\ UNCHANGED <<memVars, deviceVars, readVars, sel>>

\* main.c++ 348-353
cxx_BeginRenderPassCmd ==
    [op          |-> "vkCmdBeginRenderPass",
     renderPass  |-> "render_pass",
     framebuffer |-> "framebuffer",
     renderArea  |-> [x |-> 0, y |-> 0, width |-> 400, height |-> 400]]

\* main.c++ 361-372: float32[0..3] assigned one by one.
cxx_ClearAttachmentsCmd ==
    [op              |-> "vkCmdClearAttachments",
     aspectMask      |-> {"VK_IMAGE_ASPECT_COLOR_BIT"},
     colorAttachment |-> 0,
     float32         |-> <<1, 1, 0, 1>>,
     rect            |-> [x |-> 0, y |-> 0, width |-> 400, height |-> 400]]

\* main.c++ 375
cxx_EndRenderPassCmd == [op |-> "vkCmdEndRenderPass"]

\* main.c++ 380-425: image_memory_barriers[2], zeroed, then assigned.
cxx_PipelineBarrierACmd ==
    [op           |-> "vkCmdPipelineBarrier",
     srcStageMask |-> {"VK_PIPELINE_STAGE_COLOR_ATTACHMENT_OUTPUT_BIT"},
     dstStageMask |-> {"VK_PIPELINE_STAGE_TRANSFER_BIT"},
     image_memory_barriers |->
        << [srcAccessMask |-> {},
            dstAccessMask |-> {"VK_ACCESS_TRANSFER_WRITE_BIT"},
            oldLayout     |-> "VK_IMAGE_LAYOUT_UNDEFINED",
            newLayout     |-> "VK_IMAGE_LAYOUT_TRANSFER_DST_OPTIMAL",
            image         |-> "read_image"],
           [srcAccessMask |-> {"VK_ACCESS_COLOR_ATTACHMENT_WRITE_BIT"},
            dstAccessMask |-> {"VK_ACCESS_TRANSFER_READ_BIT"},
            oldLayout     |-> "VK_IMAGE_LAYOUT_COLOR_ATTACHMENT_OPTIMAL",
            newLayout     |-> "VK_IMAGE_LAYOUT_TRANSFER_SRC_OPTIMAL",
            image         |-> "write_image"] >>]

\* main.c++ 430-447
cxx_CopyImageCmd ==
    [op             |-> "vkCmdCopyImage",
     srcImage       |-> "write_image",
     srcImageLayout |-> "VK_IMAGE_LAYOUT_TRANSFER_SRC_OPTIMAL",
     dstImage       |-> "read_image",
     dstImageLayout |-> "VK_IMAGE_LAYOUT_TRANSFER_DST_OPTIMAL",
     region         |-> [srcOffset |-> [x |-> 0, y |-> 0],
                         dstOffset |-> [x |-> 0, y |-> 0],
                         extent    |-> [width |-> 400, height |-> 400, depth |-> 1]]]

\* main.c++ 452-485
cxx_PipelineBarrierBCmd ==
    [op           |-> "vkCmdPipelineBarrier",
     srcStageMask |-> {"VK_PIPELINE_STAGE_TRANSFER_BIT"},
     dstStageMask |-> {"VK_PIPELINE_STAGE_HOST_BIT"},
     image_memory_barriers |->
        << [srcAccessMask |-> {"VK_ACCESS_TRANSFER_WRITE_BIT"},
            dstAccessMask |-> {"VK_ACCESS_HOST_READ_BIT"},
            oldLayout     |-> "VK_IMAGE_LAYOUT_TRANSFER_DST_OPTIMAL",
            newLayout     |-> "VK_IMAGE_LAYOUT_GENERAL",
            image         |-> "read_image"] >>]

\* A vkCmd* call of main.c++.
cxx_Record(here, cmd, next) ==
    /\ pc = here
    /\ calls' = Append(calls, <<cmd.op>>)
    /\ command_buffer' = IF command_buffer.state = "recording"
                         THEN [command_buffer EXCEPT !.cmds = Append(@, cmd)]
                         ELSE command_buffer
    /\ pc' = next
    /\ UNCHANGED <<exit_status, failed_check, live, res, fence, submitted>>
    /\ UNCHANGED <<memVars, deviceVars, readVars, sel>>

\* main.c++ 347-357
cxx_CmdBeginRenderPass ==
    cxx_Record(<<"vkCmdBeginRenderPass">>, cxx_BeginRenderPassCmd, <<"vkCmdClearAttachments">>)

\* main.c++ 360-374
cxx_CmdClearAttachments ==
    cxx_Record(<<"vkCmdClearAttachments">>, cxx_ClearAttachmentsCmd, <<"vkCmdEndRenderPass">>)

\* main.c++ 375
cxx_CmdEndRenderPass ==
    cxx_Record(<<"vkCmdEndRenderPass">>, cxx_EndRenderPassCmd, <<"vkCmdPipelineBarrier", "A">>)

\* main.c++ 379-426
cxx_CmdPipelineBarrierA ==
    cxx_Record(<<"vkCmdPipelineBarrier", "A">>, cxx_PipelineBarrierACmd, <<"vkCmdCopyImage">>)

\* main.c++ 429-448
cxx_CmdCopyImage ==
    cxx_Record(<<"vkCmdCopyImage">>, cxx_CopyImageCmd, <<"vkCmdPipelineBarrier", "B">>)

\* main.c++ 451-486
cxx_CmdPipelineBarrierB ==
    cxx_Record(<<"vkCmdPipelineBarrier", "B">>, cxx_PipelineBarrierBCmd, <<"vkEndCommandBuffer">>)

\* main.c++ 489-492
cxx_EndCommandBuffer ==
    /\ pc = <<"vkEndCommandBuffer">>
    /\ calls' = Append(calls, <<"vkEndCommandBuffer">>)
    /\ \E r \in VkResults :
         /\ res' = r
         /\ command_buffer' = [command_buffer EXCEPT !.state =
                                  IF r = "VK_SUCCESS" THEN "executable" ELSE "invalid"]
         /\ cxx_check(r = "VK_SUCCESS", "vkEndCommandBuffer", <<"vkCreateFence">>, live)
    /\ UNCHANGED <<fence, submitted>>
    /\ UNCHANGED <<memVars, deviceVars, readVars, sel>>

\* main.c++ 495-500
cxx_CreateFence ==
    /\ pc = <<"vkCreateFence">>
    /\ calls' = Append(calls, <<"vkCreateFence">>)
    /\ \E r \in VkResults :
         /\ res' = r
         /\ fence' = IF r = "VK_SUCCESS" THEN "unsignaled" ELSE fence
         /\ cxx_check(r = "VK_SUCCESS", "vkCreateFence", <<"vkQueueSubmit">>,
                  IF r = "VK_SUCCESS" THEN live \cup {"fence"} ELSE live)
    /\ UNCHANGED <<command_buffer, submitted>>
    /\ UNCHANGED <<memVars, deviceVars, readVars, sel>>

\* main.c++ 503-510
cxx_QueueSubmit ==
    /\ pc = <<"vkQueueSubmit">>
    /\ calls' = Append(calls, <<"vkQueueSubmit", "command_buffer", "fence">>)
    /\ \E r \in VkResults :
         /\ res' = r
         /\ submitted' = IF r = "VK_SUCCESS"
                         THEN Append(submitted, [cmds  |-> command_buffer.cmds,
                                                 fence |-> "fence"])
                         ELSE submitted
         /\ command_buffer' = IF r = "VK_SUCCESS"
                              THEN [command_buffer EXCEPT !.state = "pending"]
                              ELSE command_buffer
         /\ cxx_check(r = "VK_SUCCESS", "vkQueueSubmit", <<"vkWaitForFences">>, live)
    /\ UNCHANGED fence
    /\ UNCHANGED <<memVars, deviceVars, readVars, sel>>

\* main.c++ 513-516
cxx_WaitForFences ==
    /\ pc = <<"vkWaitForFences">>
    /\ calls' = Append(calls, <<"vkWaitForFences", "fence">>)
    /\ \E r \in WaitResults :
         /\ res' = r
         /\ r = "VK_SUCCESS" => fence = "signaled"
         /\ r = "VK_TIMEOUT" => fence # "signaled"
         /\ cxx_check(r = "VK_SUCCESS", "vkWaitForFence", <<"vkMapMemory">>, live)
    /\ UNCHANGED <<memVars, cmdVars, deviceVars, readVars, sel>>

\* main.c++ 519-523
cxx_MapMemory ==
    /\ pc = <<"vkMapMemory">>
    /\ calls' = Append(calls, <<"vkMapMemory", "read_image_memory">>)
    /\ \E r \in VkResults :
         /\ res' = r
         /\ mapped' = IF r = "VK_SUCCESS" THEN mapped \cup {"read_image_memory"} ELSE mapped
         /\ cxx_check(r = "VK_SUCCESS", "vkMapMemory", <<"read pixel">>, live)
    /\ UNCHANGED <<pixel, channel>>
    /\ UNCHANGED <<memVars, cmdVars, deviceVars, sel>>

\* main.c++ 525-528
cxx_ChannelsOf(p) ==
    [red   |-> Uint8(And32(p, 255)),
     green |-> Uint8(And32(ShiftRight32(p, 8), 255)),
     blue  |-> Uint8(And32(ShiftRight32(p, 16), 255)),
     alpha |-> Uint8(And32(ShiftRight32(p, 24), 255))]

\* main.c++ 524-528
cxx_ReadPixel ==
    /\ pc = <<"read pixel">>
    /\ \E bytes \in MappedBytes :
         LET p == LoadUint32(bytes)
         IN  /\ pixel' = <<p>>
             /\ channel' = cxx_ChannelsOf(p)
    /\ pc' = <<"check", "red">>
    /\ UNCHANGED mapped
    /\ UNCHANGED <<exit_status, failed_check, calls, live, res>>
    /\ UNCHANGED <<memVars, cmdVars, deviceVars, sel>>

\* main.c++ 530
cxx_CheckRed ==
    /\ pc = <<"check", "red">>
    /\ cxx_check(channel.red = 255, "red == 0xff", <<"check", "green">>, live)
    /\ UNCHANGED <<calls, res>>
    /\ UNCHANGED <<memVars, cmdVars, deviceVars, readVars, sel>>

\* main.c++ 531
cxx_CheckGreen ==
    /\ pc = <<"check", "green">>
    /\ cxx_check(channel.green = 255, "green == 0xff", <<"check", "blue">>, live)
    /\ UNCHANGED <<calls, res>>
    /\ UNCHANGED <<memVars, cmdVars, deviceVars, readVars, sel>>

\* main.c++ 532
cxx_CheckBlue ==
    /\ pc = <<"check", "blue">>
    /\ cxx_check(channel.blue = 0, "blue == 0", <<"check", "alpha">>, live)
    /\ UNCHANGED <<calls, res>>
    /\ UNCHANGED <<memVars, cmdVars, deviceVars, readVars, sel>>

\* main.c++ 533
cxx_CheckAlpha ==
    /\ pc = <<"check", "alpha">>
    /\ cxx_check(channel.alpha = 255, "alpha == 0xff", <<"return">>, live)
    /\ UNCHANGED <<calls, res>>
    /\ UNCHANGED <<memVars, cmdVars, deviceVars, readVars, sel>>

\* main.c++ 536
cxx_Return ==
    /\ pc = <<"return">>
    /\ pc' = <<"exited">>
    /\ exit_status' = <<0>>
    /\ UNCHANGED <<failed_check, calls, live, res>>
    /\ UNCHANGED <<memVars, cmdVars, deviceVars, readVars, sel>>

\* main.c++ and the device.
cxx_Next ==
    \/ cxx_EnumerateInstanceLayerProperties
    \/ cxx_CreateInstance
    \/ cxx_EnumeratePhysicalDevices
    \/ cxx_GetPhysicalDeviceMemoryProperties
    \/ cxx_GetPhysicalDeviceQueueFamilyProperties
    \/ cxx_CreateDevice
    \/ \E img \in Images : cxx_CreateImage(img)
    \/ \E img \in Images : cxx_GetImageMemoryRequirements(img)
    \/ \E img \in Images : cxx_FindMemoryType(img)
    \/ \E img \in Images : cxx_AllocateMemory(img)
    \/ \E img \in Images : cxx_BindImageMemory(img)
    \/ \E img \in Images : cxx_CreateImageView(img)
    \/ cxx_CreateRenderPass
    \/ cxx_CreateFramebuffer
    \/ cxx_CreateCommandPool
    \/ cxx_AllocateCommandBuffers
    \/ cxx_BeginCommandBuffer
    \/ cxx_CmdBeginRenderPass
    \/ cxx_CmdClearAttachments
    \/ cxx_CmdEndRenderPass
    \/ cxx_CmdPipelineBarrierA
    \/ cxx_CmdCopyImage
    \/ cxx_CmdPipelineBarrierB
    \/ cxx_EndCommandBuffer
    \/ cxx_CreateFence
    \/ cxx_QueueSubmit
    \/ \E i \in 1..Len(Cmds) : DeviceExecute(i)
    \/ DeviceSignalFence
    \/ cxx_WaitForFences
    \/ cxx_MapMemory
    \/ cxx_ReadPixel
    \/ cxx_CheckRed
    \/ cxx_CheckGreen
    \/ cxx_CheckBlue
    \/ cxx_CheckAlpha
    \/ cxx_Return

(***************************************************************************)
(* The two programs side by side: from the same state either one takes the  *)
(* next statement, with the results the driver gives it.                    *)
(***************************************************************************)
EitherNext ==
    \/ Next
    \/ cxx_Next

SpecBoth == Init /\ [][EitherNext]_vars

\* What a failed selection for img leaves behind in the state other than res:
\* the exit with status 255 at that check, no further driver call.
SelectionAborts(img) ==
    /\ pc = <<"find_appropriate_memory_type", img>>
    /\ pc' = <<"exited">>
    /\ exit_status' = <<255>>
    /\ failed_check' = (IF img = "write_image"
                        THEN "find_appropriate_memory_type for write_image"
                        ELSE "find_appropriate_memory_type for read_image")
    /\ memory_type' = memory_properties.memoryTypeCount
    /\ UNCHANGED <<calls, live>>
    /\ UNCHANGED <<memory_properties, queue_flags, reqs, alloc, bound>>
    /\ UNCHANGED <<cmdVars, deviceVars, readVars, sel>>

\* A step that both programs take: to the same state, or, where main.c keeps
\* the selection's -1 in res and main.c++ in err, to states that differ in
\* res alone, after which neither program runs on.
SameStep ==
    \/ Next /\ cxx_Next
    \/ \E img \in Images :
         /\ SelectionAborts(img)
         /\ ENABLED (FindMemoryType(img) /\ SelectionAborts(img))
         /\ ENABLED (cxx_FindMemoryType(img) /\ SelectionAborts(img))

\* The structures the two programs hand to the driver.
SameParameters ==
    /\ \A img \in Images :
          /\ cxx_ImageCreateInfo(img) = ImageCreateInfo(img)
          /\ cxx_desired_flags(img) = desired_flags(img)
    /\ cxx_color_attachment = color_attachment
    /\ cxx_color_attachment_reference = color_attachment_reference
    /\ cxx_RenderPassCreateInfo = RenderPassCreateInfo
    /\ cxx_FramebufferCreateInfo = FramebufferCreateInfo
    /\ cxx_BeginRenderPassCmd = BeginRenderPassCmd
    /\ cxx_ClearAttachmentsCmd = ClearAttachmentsCmd
    /\ cxx_EndRenderPassCmd = EndRenderPassCmd
    /\ cxx_PipelineBarrierACmd = PipelineBarrierACmd
    /\ cxx_CopyImageCmd = CopyImageCmd
    /\ cxx_PipelineBarrierBCmd = PipelineBarrierBCmd

\* C21: the two source files are the same program: for every sequence of
\* driver results main.c and main.c++ issue the same sequence of driver
\* calls with the same parameters (formats, layouts, access masks, stages,
\* extents, flags), fail at the same step and end with the same exit status.
\* From every state either program reaches, each step of one is a step of
\* the other.
C21_SameProgram ==
    /\ [][SameStep]_vars
    /\ []SameParameters
    /\ [](pc = <<"exited">> => ~ENABLED EitherNext)

\* main.c++ stopped at the failed selection for read_image, res still
\* VK_SUCCESS from the calls before it.
C21_Witness ==
    /\ pc = <<"exited">>
    /\ exit_status = <<255>>
    /\ failed_check = "find_appropriate_memory_type for read_image"
    /\ res = "VK_SUCCESS"
    /\ Called("vkAllocateMemory")

(***************************************************************************)
(* The queue family.  queue_family_index is 0 throughout: the device's      *)
(* queue (main.c 159, 170) and the command pool (main.c 327) come from       *)
(* family 0, whose queueFlags the check at main.c 152 looks at.              *)
(***************************************************************************)
\* The commands that need a graphics queue, and the one that needs transfer.
GraphicsOps == {"vkCmdBeginRenderPass", "vkCmdClearAttachments", "vkCmdEndRenderPass"}
TransferOps == {"vkCmdCopyImage"}

Advertises(bits) ==
    /\ queue_flags # <<>>
    /\ BitAnd(queue_flags[1], bits) = bits

RecordedOrSubmitted(ops) ==
    \/ \E k \in DOMAIN Recorded : Recorded[k].op \in ops
    \/ \E s \in DOMAIN submitted :
          \E k \in DOMAIN submitted[s].cmds : submitted[s].cmds[k].op \in ops

\* C22: render-pass (graphics) commands and the image copy are recorded and
\* submitted only when queue family 0, the family of the queue and of the
\* command pool, advertises both graphics and transfer capability; the
\* queue-family check stops the program otherwise.
C22_BothCapabilitiesChecked ==
    /\ RecordedOrSubmitted(GraphicsOps \cup TransferOps) =>
          Advertises(BitOr(VK_QUEUE_GRAPHICS_BIT, VK_QUEUE_TRANSFER_BIT))
    /\ (queue_flags # <<>>
           /\ ~Advertises(BitOr(VK_QUEUE_GRAPHICS_BIT, VK_QUEUE_TRANSFER_BIT))) =>
          /\ pc = <<"exited">>
          /\ exit_status = <<ExitStatusOf(-1)>>
          /\ ~Called("vkCreateCommandPool")

\* The render pass submitted to a queue of a family that advertises transfer
\* only.
C22_Witness ==
    /\ queue_flags = <<VK_QUEUE_TRANSFER_BIT>>
    /\ Called("vkCreateCommandPool")
    /\ \E s \in DOMAIN submitted :
          \E k \in DOMAIN submitted[s].cmds : submitted[s].cmds[k].op \in GraphicsOps
    /\ executed = DOMAIN Cmds

====
